---- MODULE Spec2Model ----
(***************************************************************************)
(* A model of the mud-server: the per-connection SSH handlers (Gateway),   *)
(* the two mpsc queues, the world task (Engine) that owns the player table *)
(* and the GameWorld, and the grammar that turns a line into an Action.    *)
(*                                                                         *)
(* Text is modelled as it is in the program: a data message is a sequence  *)
(* of bytes, std::str::from_utf8 turns it into a sequence of code points,  *)
(* and the regular expressions of grammar.rs are applied to that sequence. *)
(***************************************************************************)
EXTENDS Integers, Sequences, FiniteSets, TLC

\* Option<T>: None, or Some(x).
None == <<>>
Some(x) == <<x>>

(***************************************************************************)
(* Bytes, UTF-8 and character classes                                      *)
(***************************************************************************)

\* std::str::from_utf8: the number of bytes of the sequence a lead byte opens,
\* 0 for a byte that cannot open one.
Utf8Width(b) ==
    IF b < 128 THEN 1
    ELSE IF b \in 194..223 THEN 2
    ELSE IF b \in 224..239 THEN 3
    ELSE IF b \in 240..244 THEN 4
    ELSE 0

\* The range the second byte of a sequence must lie in, given its lead byte.
Utf8SecondOk(b0, b1) ==
    IF b0 = 224 THEN b1 \in 160..191
    ELSE IF b0 = 237 THEN b1 \in 128..159
    ELSE IF b0 = 240 THEN b1 \in 144..191
    ELSE IF b0 = 244 THEN b1 \in 128..143
    ELSE b1 \in 128..191

Utf8CodePoint(bs) ==
    IF Len(bs) = 1 THEN bs[1]
    ELSE IF Len(bs) = 2 THEN (bs[1] - 192) * 64 + (bs[2] - 128)
    ELSE IF Len(bs) = 3 THEN (bs[1] - 224) * 4096 + (bs[2] - 128) * 64 + (bs[3] - 128)
    ELSE (bs[1] - 240) * 262144 + (bs[2] - 128) * 4096 + (bs[3] - 128) * 64 + (bs[4] - 128)

\* std::str::from_utf8(&item): Err for a malformed sequence, otherwise the
\* text as its sequence of code points.
RECURSIVE from_utf8(_)
from_utf8(bytes) ==
    IF bytes = <<>> THEN [ok |-> TRUE, text |-> <<>>]
    ELSE LET w == Utf8Width(bytes[1]) IN
         IF w = 0 \/ Len(bytes) < w THEN [ok |-> FALSE, text |-> <<>>]
         ELSE IF w >= 2 /\ ~Utf8SecondOk(bytes[1], bytes[2]) THEN [ok |-> FALSE, text |-> <<>>]
         ELSE IF \E i \in 3..w : bytes[i] \notin 128..191 THEN [ok |-> FALSE, text |-> <<>>]
         ELSE LET rest == from_utf8(SubSeq(bytes, w + 1, Len(bytes))) IN
              IF rest.ok
              THEN [ok |-> TRUE, text |-> <<Utf8CodePoint(SubSeq(bytes, 1, w))>> \o rest.text]
              ELSE rest

\* The non-ASCII code points the inputs of this model use, with their Unicode
\* classes: U+00C9 and U+00E9 are letters (E acute, upper and lower case),
\* U+00A0 is white space (no-break space), U+2192 (rightwards arrow) is a
\* symbol: neither a word character nor white space.
NonAsciiLetters == {201, 233}
NonAsciiSpaces == {160}

\* \p{L}
IsLetter(c) == c \in 65..90 \/ c \in 97..122 \/ c \in NonAsciiLetters
\* \w
IsWord(c) == IsLetter(c) \/ c \in 48..57 \/ c = 95
\* \s
IsSpace(c) == c \in 9..13 \/ c = 32 \/ c \in NonAsciiSpaces

\* char::to_lowercase
LowerChar(c) == IF c \in 65..90 THEN c + 32 ELSE IF c = 201 THEN 233 ELSE c
\* str::to_lowercase
to_lowercase(s) == [i \in 1..Len(s) |-> LowerChar(s[i])]

\* u8::eq_ignore_ascii_case over slices: only A-Z and a-z are folded.
AsciiLower(b) == IF b \in 65..90 THEN b + 32 ELSE b
eq_ignore_ascii_case(a, b) ==
    /\ Len(a) = Len(b)
    /\ \A i \in 1..Len(a) : AsciiLower(a[i]) = AsciiLower(b[i])

\* The character classes of the regular expressions of grammar.rs.
InClass(cls, c) ==
    IF cls = "verb" THEN IsWord(c) \/ c = 45       \* [\w\-]
    ELSE IF cls = "letter" THEN IsLetter(c)        \* \p{L}
    ELSE IsSpace(c)                                \* \s

\* The end of the greedy run of class cls that starts at position i: the
\* first position at or after i whose character is not in the class.
RECURSIVE RunEnd(_, _, _)
RunEnd(s, i, cls) ==
    IF i <= Len(s) /\ InClass(cls, s[i]) THEN RunEnd(s, i + 1, cls) ELSE i

(***************************************************************************)
(* Properties (world/properties.rs)                                        *)
(***************************************************************************)

\* A Result: Ok(v) or Err(e).
\* A Result, Ok(v) or Err(e); Panic(m) stands for a call that does not return
\* because it panics (an unwrap or expect on the failing case, a todo!()).
Ok(v) == [tag |-> "Ok", val |-> v]
Err(e) == [tag |-> "Err", val |-> e]
Panic(m) == [tag |-> "Panic", val |-> m]
IsOk(r) == r.tag = "Ok"

\* impl TryFrom<&str> for Color: the word list, matched on item.to_lowercase().
ColorWords ==
    (<<114,101,100>> :> "Red") @@
    (<<98,108,117,101>> :> "Blue") @@
    (<<103,114,101,101,110>> :> "Green") @@
    (<<121,101,108,108,111,119>> :> "Yellow") @@
    (<<99,121,97,110>> :> "Cyan") @@
    (<<109,97,103,101,110,116,97>> :> "Magenta") @@
    (<<98,108,97,99,107>> :> "Black") @@
    (<<119,104,105,116,101>> :> "White") @@
    (<<118,105,111,108,101,116>> :> "Violet") @@
    (<<112,117,114,112,108,101>> :> "Purple")

Color_try_from(item) ==
    IF to_lowercase(item) \in DOMAIN ColorWords
    THEN Ok(ColorWords[to_lowercase(item)])
    ELSE Err("PropertyConversionFailed")

\* impl TryFrom<&str> for Rigidity: the word list, matched on item.to_lowercase().
RigidityWords ==
    (<<114,105,103,105,100>> :> "Rigid") @@
    (<<115,111,108,105,100>> :> "Solid") @@
    (<<108,105,113,117,105,100>> :> "Liquid") @@
    (<<97,101,114,105,97,108,108,121>> :> "Aerially") @@
    (<<102,114,111,122,101,110>> :> "Frozen") @@
    (<<109,111,108,116,101,110>> :> "Molten")

Rigidity_try_from(item) ==
    IF to_lowercase(item) \in DOMAIN RigidityWords
    THEN Ok(RigidityWords[to_lowercase(item)])
    ELSE Err("PropertyConversionFailed")

\* impl TryFrom<&str> for Temperature: the word list, matched on item.to_lowercase().
TemperatureWords ==
    (<<99,111,108,100>> :> "Cold") @@
    (<<99,111,111,108>> :> "Cool") @@
    (<<119,97,114,109>> :> "Warm") @@
    (<<104,111,116>> :> "Hot")

Temperature_try_from(item) ==
    IF to_lowercase(item) \in DOMAIN TemperatureWords
    THEN Ok(TemperatureWords[to_lowercase(item)])
    ELSE Err("PropertyConversionFailed")

\* impl TryFrom<&str> for Lighting: the word list, matched on item.to_lowercase().
LightingWords ==
    (<<112,117,108,115,105,110,103>> :> "Pulsing") @@
    (<<114,97,100,105,97,116,105,110,103>> :> "Radiating") @@
    (<<115,104,105,110,105,110,103>> :> "Shining") @@
    (<<98,114,105,103,104,116>> :> "Bright") @@
    (<<100,97,114,107>> :> "Dark") @@
    (<<103,108,111,119,105,110,103>> :> "Glowing")

Lighting_try_from(item) ==
    IF to_lowercase(item) \in DOMAIN LightingWords
    THEN Ok(LightingWords[to_lowercase(item)])
    ELSE Err("PropertyConversionFailed")

\* A Property::from whose Custom carries the text in lower case.
Property_from_custom_lowercase(item) ==
    IF IsOk(Color_try_from(item)) THEN [kind |-> "Color", value |-> Color_try_from(item).val]
    ELSE IF IsOk(Rigidity_try_from(item)) THEN [kind |-> "Rigidity", value |-> Rigidity_try_from(item).val]
    ELSE IF IsOk(Temperature_try_from(item)) THEN [kind |-> "Temperature", value |-> Temperature_try_from(item).val]
    ELSE IF IsOk(Lighting_try_from(item)) THEN [kind |-> "Lighting", value |-> Lighting_try_from(item).val]
    ELSE [kind |-> "Custom", value |-> to_lowercase(item)]

\* impl From<&str> for Property: the first category that matches, in the
\* order Color, Rigidity, Temperature, Lighting; Custom(item) otherwise.
Property_from(item) ==
    IF IsOk(Color_try_from(item)) THEN [kind |-> "Color", value |-> Color_try_from(item).val]
    ELSE IF IsOk(Rigidity_try_from(item)) THEN [kind |-> "Rigidity", value |-> Rigidity_try_from(item).val]
    ELSE IF IsOk(Temperature_try_from(item)) THEN [kind |-> "Temperature", value |-> Temperature_try_from(item).val]
    ELSE IF IsOk(Lighting_try_from(item)) THEN [kind |-> "Lighting", value |-> Lighting_try_from(item).val]
    ELSE [kind |-> "Custom", value |-> item]

(***************************************************************************)
(* Actions and the grammar (world/actions.rs, world/grammar.rs)            *)
(***************************************************************************)

\* Action::Look { target, preposition, properties } and the five actions
\* without arguments.
Look(target, preposition, properties) ==
    [type |-> "Look", target |-> target, preposition |-> preposition,
     properties |-> properties]
SimpleLook == Look(None, None, None)
Verb(name) == [type |-> name]

\* fn synonyms: the word itself.
synonyms(word) == <<word>>

\* LOOK_RE = ^\s*\.?\s*$ on the text after the verb.
LOOK_RE_is_match(rest) ==
    LET a == RunEnd(rest, 1, "space")
        b == IF a <= Len(rest) /\ rest[a] = 46 THEN a + 1 ELSE a
    IN  RunEnd(rest, b, "space") = Len(rest) + 1

\* The words of COMPLEX_LOOK_RE after the preposition, from position p, which
\* must open a word (\p{L}+).  A word is the target when only \s*\.?\s*$
\* follows it; otherwise it is an item of group 2 and a separator
\* (\s*,\s* or \s+) and another word must follow.  <<>> when the text does
\* not have that structure.
RECURSIVE ComplexWords(_, _)
ComplexWords(rest, p) ==
    LET q == RunEnd(rest, p, "letter")
        a == RunEnd(rest, q, "space")
        b == IF a <= Len(rest) /\ rest[a] = 44 THEN RunEnd(rest, a + 1, "space") ELSE a
    IN  IF q = p THEN <<>>
        ELSE IF LOOK_RE_is_match(SubSeq(rest, q, Len(rest))) THEN <<SubSeq(rest, p, q - 1)>>
        ELSE IF b = q THEN <<>>
        ELSE LET more == ComplexWords(rest, b) IN
             IF more = <<>> THEN <<>> ELSE <<SubSeq(rest, p, q - 1)>> \o more

\* COMPLEX_LOOK_RE.captures(rest), for
\* ^\s*\b(\p{L}+)\s+((?:\b(?:\p{L}+)\b(?:\s*,\s*|\s+))*)\b(\p{L}+)\s*\.?\s*$ :
\* group 1 is the first word, group 3 the last word, and the words of group 2
\* (those PROP_RE.captures_iter then yields, one per word) lie between them.
\* None when the text does not match.
COMPLEX_LOOK_RE_captures(rest) ==
    LET i == RunEnd(rest, 1, "space")
        j == RunEnd(rest, i, "letter")
        k == RunEnd(rest, j, "space")
        ws == ComplexWords(rest, k)
    IN  IF j = i \/ k = j \/ ws = <<>> THEN None
        ELSE Some([g1 |-> SubSeq(rest, i, j - 1),
                   g2 |-> SubSeq(ws, 1, Len(ws) - 1),
                   g3 |-> ws[Len(ws)]])

\* A "look" arm that collects the properties last word first.
LookArm_properties_reversed(item, end, debug) ==
    LET rest == SubSeq(item, end, Len(item))
        caps == COMPLEX_LOOK_RE_captures(rest)
    IN  IF end = Len(item) + 1 THEN Ok(SimpleLook)
        ELSE IF debug /\ item[end] >= 128 THEN Panic("byte index is not a char boundary")
        ELSE IF LOOK_RE_is_match(rest) THEN Ok(SimpleLook)
        ELSE IF caps # None
             THEN Ok(Look(Some(caps[1].g3), Some(caps[1].g1),
                          Some([n \in 1..Len(caps[1].g2) |->
                                  Property_from(caps[1].g2[Len(caps[1].g2) + 1 - n])])))
        ELSE Err("VerbUnknownError")

\* The "look" arm of Action::try_from(&str).  end is mat.end() as a position
\* in the text; debug is whether the debug! call site is enabled, in which
\* case its argument &item[mat.end()+1..] is evaluated and panics when that
\* byte offset is not a character boundary.
LookArm(item, end, debug) ==
    LET rest == SubSeq(item, end, Len(item))
        caps == COMPLEX_LOOK_RE_captures(rest)
    IN  IF end = Len(item) + 1 THEN Ok(SimpleLook)
        ELSE IF debug /\ item[end] >= 128 THEN Panic("byte index is not a char boundary")
        ELSE IF LOOK_RE_is_match(rest) THEN Ok(SimpleLook)
        ELSE IF caps # None
             THEN Ok(Look(Some(caps[1].g3), Some(caps[1].g1),
                          Some([n \in 1..Len(caps[1].g2) |-> Property_from(caps[1].g2[n])])))
        ELSE Err("VerbUnknownError")

\* A try_from(&str) that reports a word that is no verb as VerbEncodingError.
Action_try_from_str_encoding_error(item, debug) ==
    LET end == RunEnd(item, 1, "verb")
        command == SubSeq(item, 1, end - 1)
        i == to_lowercase(synonyms(command)[1])
    IN  IF end = 1 THEN Panic("called Option::unwrap() on a None value")
        ELSE IF i = <<108,111,111,107>> THEN LookArm(item, end, debug)
        ELSE IF i = <<114,101,97,100>> THEN Ok(Verb("Read"))
        ELSE IF i = <<101,110,116,101,114>> THEN Ok(Verb("Enter"))
        ELSE IF i = <<99,111,110,110,101,99,116>> THEN Ok(Verb("Connect"))
        ELSE IF i = <<65,99,99,101,115,115>> THEN Ok(Verb("Access"))
        ELSE IF i = <<79,112,101,110>> THEN Ok(Verb("Open"))
        ELSE Err("VerbEncodingError")

\* impl TryFrom<&str> for Action.  CMD_RE = ^([\w\-]+) ; find(item).unwrap()
\* panics when the text has no leading word.  The arms are compared with
\* i.to_lowercase(): "Access" and "Open" are spelled with a capital.
Action_try_from_str(item, debug) ==
    LET end == RunEnd(item, 1, "verb")
        command == SubSeq(item, 1, end - 1)
        i == to_lowercase(synonyms(command)[1])
    IN  IF end = 1 THEN Panic("called Option::unwrap() on a None value")
        ELSE IF i = <<108,111,111,107>> THEN LookArm(item, end, debug)
        ELSE IF i = <<114,101,97,100>> THEN Ok(Verb("Read"))
        ELSE IF i = <<101,110,116,101,114>> THEN Ok(Verb("Enter"))
        ELSE IF i = <<99,111,110,110,101,99,116>> THEN Ok(Verb("Connect"))
        ELSE IF i = <<65,99,99,101,115,115>> THEN Ok(Verb("Access"))
        ELSE IF i = <<79,112,101,110>> THEN Ok(Verb("Open"))
        ELSE Err("VerbUnknownError")

\* A try_from(Vec<u8>) that reports bytes that are no UTF-8 as an unknown verb.
Action_try_from_unknown_verb(item, debug) ==
    LET s == from_utf8(item)
    IN  IF ~s.ok THEN Err("VerbUnknownError") ELSE Action_try_from_str(s.text, debug)

\* impl TryFrom<Vec<u8>> for Action
Action_try_from(item, debug) ==
    LET s == from_utf8(item)
    IN  IF ~s.ok THEN Err("VerbEncodingError") ELSE Action_try_from_str(s.text, debug)

(***************************************************************************)
(* Assets (world/assets.rs)                                                *)
(***************************************************************************)

\* Node::new(uid)
Node_new(uid) ==
    [kind |-> "Node", uid |-> uid, name |-> "", properties |-> None,
     description |-> "", sub_assets |-> <<>>]

\* Node::update_description, Port::update_description
update_description(asset, description) == [asset EXCEPT !.description = description]

\* Port::new(id)
Port_new(id) ==
    [kind |-> "Port", uid |-> id, properties |-> None, is_open |-> FALSE,
     connects_to |-> None, description |-> ""]

\* GameAsset::uid
uid(asset) == asset.uid

\* An add_asset that pushes whatever it is given.
Node_add_asset_always(node, asset) ==
    [node EXCEPT !.sub_assets = Append(@, asset)]

\* Node::add_asset: pushed unless an asset with the same uid is present.
Node_add_asset(node, asset) ==
    IF ~(\E n \in 1..Len(node.sub_assets) : uid(node.sub_assets[n]) = uid(asset))
    THEN [node EXCEPT !.sub_assets = Append(@, asset)]
    ELSE node

\* Node::remove_asset: sub_assets.retain(|a| a.uid() == asset_uid)
Node_remove_asset(node, asset_uid) ==
    [node EXCEPT !.sub_assets = SelectSeq(@, LAMBDA a : uid(a) = asset_uid)]

\* Port::describe
Port_describe(port) ==
    IF port.is_open THEN port.description \o " The port is open."
    ELSE port.description \o " The port is closed."

\* GameAsset::describe, dispatched on the asset's type (Node::describe is the
\* node's description).
describe(asset) ==
    IF asset.kind = "Port" THEN Port_describe(asset) ELSE asset.description

\* The loop of Node::react_to over sub_assets: each describe() and "\r\n".
RECURSIVE DescribeAll(_)
DescribeAll(assets) ==
    IF assets = <<>> THEN ""
    ELSE describe(Head(assets)) \o "\r\n" \o DescribeAll(Tail(assets))

\* The arms of react_to that Node and Port share.
VerbPrompt(a) ==
    IF a.type = "Read" THEN "Read what?"
    ELSE IF a.type = "Enter" THEN "Enter what?"
    ELSE IF a.type = "Connect" THEN "Connect to what?"
    ELSE IF a.type = "Access" THEN "Access what?"
    ELSE "Open what?"

\* A react_to of Node that lists the sub-assets last inserted first.
Node_react_to_newest_first(node, a) ==
    LET RECURSIVE Backwards(_)
        Backwards(n) ==
            IF n = 0 THEN ""
            ELSE describe(node.sub_assets[n]) \o "\r\n" \o Backwards(n - 1)
    IN  IF a.type = "Look" /\ a.target = None
        THEN node.description \o "\r\n" \o Backwards(Len(node.sub_assets))
        ELSE IF a.type = "Look" THEN "Not implemented!\r\n"
        ELSE VerbPrompt(a)

\* impl GameAsset for Node: react_to
Node_react_to(node, a) ==
    IF a.type = "Look" /\ a.target = None
    THEN node.description \o "\r\n" \o DescribeAll(node.sub_assets)
    ELSE IF a.type = "Look" THEN "Not implemented!\r\n"
    ELSE VerbPrompt(a)

\* impl GameAsset for Port: react_to
Port_react_to(port, a) ==
    IF a.type = "Look" /\ a.target = None
    THEN IF port.is_open THEN port.description \o "\n The port is open."
         ELSE port.description \o "\n The port is closed."
    ELSE IF a.type = "Look" THEN "Not implemented!\r\n"
    ELSE VerbPrompt(a)

(***************************************************************************)
(* The game world (world/mod.rs)                                           *)
(***************************************************************************)

\* GameWorld::new.  The arena of nodes is the sequence of the nodes inserted;
\* nothing is ever removed from it, so an Index is a position in it.
GameWorld_new(name) ==
    [name |-> name, description |-> None, spawn_nodes |-> <<>>, nodes |-> <<>>,
     players |-> <<>>]

\* Arena::get
Arena_get(nodes, index) == IF index \in 1..Len(nodes) THEN Some(nodes[index]) ELSE None

\* An add_spwan_node that pushes the index the arena hands out next.
add_spwan_node_stale_index(world, node) ==
    [world EXCEPT !.nodes = Append(@, node),
                  !.spawn_nodes = Append(@, Len(world.nodes) + 2)]

\* GameWorld::add_spwan_node: the world after the call; the index returned is
\* Len(nodes) of that world.
add_spwan_node(world, node) ==
    [world EXCEPT !.nodes = Append(@, node),
                  !.spawn_nodes = Append(@, Len(world.nodes) + 1)]

\* What add_spwan_node returns: Some(idx) of the node inserted.
add_spwan_node_returns(world, node) == Some(Len(world.nodes) + 1)

\* An add_node that pushes the index to spawn_nodes as well.
add_node_marks_spawn(world, node) ==
    [world EXCEPT !.nodes = Append(@, node),
                  !.spawn_nodes = Append(@, Len(world.nodes) + 1)]

\* GameWorld::add_node
add_node(world, node) == [world EXCEPT !.nodes = Append(@, node)]

\* What add_node returns: Some(idx) of the node inserted.
add_node_returns(world, node) == Some(Len(world.nodes) + 1)

\* Player::new
Player_new(player_name, active_session) ==
    [player_name |-> player_name, active_session |-> active_session, location |-> None]

\* impl Spawnable for Player
set_spawn_point_index(player, index) == [player EXCEPT !.location = Some(index)]

\* A spawn that takes the candidate added last.
spawn_last_candidate(world, asset) ==
    IF world.spawn_nodes = <<>>
    THEN [result |-> Err("NoSpawnpointFound"), asset |-> asset]
    ELSE [result |-> Ok(world.spawn_nodes[Len(world.spawn_nodes)]),
          asset |-> set_spawn_point_index(asset, world.spawn_nodes[Len(world.spawn_nodes)])]

\* A spawn that returns the first candidate and leaves the asset as it was.
spawn_keeps_asset(world, asset) ==
    IF world.spawn_nodes = <<>>
    THEN [result |-> Err("NoSpawnpointFound"), asset |-> asset]
    ELSE [result |-> Ok(world.spawn_nodes[1]), asset |-> asset]

\* GameWorld::spawn: the Result, and the asset as the call leaves it.
spawn(world, asset) ==
    IF world.spawn_nodes = <<>>
    THEN [result |-> Err("NoSpawnpointFound"), asset |-> asset]
    ELSE [result |-> Ok(world.spawn_nodes[1]),
          asset |-> set_spawn_point_index(asset, world.spawn_nodes[1])]

\* The world main() builds: one spawn node with two ports.
MainNode ==
    Node_add_asset(
        Node_add_asset(
            update_description(Node_new(0),
                "Around you its dark. You feel more than you see a pulsing ultraviolet light."),
            update_description(Port_new(1), "A simple port that looks absolutely normal.")),
        update_description(Port_new(2), "A port that has a slight purple shimmering edge."))

MainWorld == add_spwan_node(GameWorld_new("Testworld"), MainNode)

\* A world without a spawn node: GameWorld::new and one add_node.
NoSpawnWorld == add_node(GameWorld_new("Testworld"), MainNode)

\* The worlds the Engine is started with.
Worlds == {MainWorld, NoSpawnWorld}

\* ScreenType::Welcome.display_ansi(): the bytes of screens/00_welcome.ans
\* when the file can be read.
WelcomeScreen == "<screens/00_welcome.ans>"

(***************************************************************************)
(* Bounds of the model                                                     *)
(***************************************************************************)

\* Connections the server accepts.
MaxConns == 2
\* Events of the environment (connections, requests and packets of clients)
\* in one behaviour.
MaxEvents == 7
\* Steps of the producers of the Engine on its own (messages sent, sessions
\* ended, senders dropped) in one behaviour.
MaxMessages == 3
\* Capacity of each mpsc channel (1_024 in init_ssh_server).
QueueCapacity == 2
\* The longest run of whitespace in a line given to the grammar.
MaxSpaces == 2
\* The most property words in a line given to the grammar.
MaxProperties == 2
\* The number of asset ids a Node is given sub-assets of.
MaxAssets == 3
\* The most nodes a GameWorld is given.
MaxNodes == 3

ClientIds == 0..(MaxConns - 1)
\* Channel ids: a connection numbers its channels in the order it opens them.
ChannelIds == 0..(MaxEvents - 1)

\* The user names and keys presented to the server, and the allow-list.
Users == {"neo"}
AllowedKeys == <<<<65,98,67,61>>>>
PresentedKeys == {<<65,98,67,61>>, <<97,66,99,61>>, <<65,98,68,61>>}

\* The packets a client sends: a lone CR, and pieces of lines.
CR == <<13>>
Packets ==
    { CR, <<108,111,111,107>>, <<101,99,104,111>>, <<255>> }

\* The lines a producer other than the Gateway puts on the data queue.
Lines ==
    { <<>>, <<108,111,111,107>>, <<120,121,122,122,121>>, <<255>>, <<114,101,97,100>> }

(***************************************************************************)
(* State                                                                   *)
(***************************************************************************)

VARIABLES
    server_client_id,   \* client_id of the Server that server::Server::new clones
    handlers,           \* the handler (a Server) of each accepted connection
    open_sessions,      \* connections whose session still receives from its Handle
    command_q,          \* the command channel: Commands sent and not yet received
    data_q,             \* the data channel: DataMessages sent and not yet received
    senders_dropped,    \* every Sender of both channels has been dropped
    stalled_handles,    \* Handles whose session takes no message: a send on them waits
    world,              \* the GameWorld run() was given
    players,            \* run()'s HashMap<ClientId, Player>
    engine,             \* the world task: running, or ended by a panic
    handle_calls,       \* per Handle, the (channel, bytes) passed to Handle::data
    error_log,          \* the last error! line of the world task
    budget,             \* what the environment has done so far (bounds the model)
    last_callback,      \* the callback the transport invoked last, with its arguments
    parse_item,         \* the bytes Action::try_from is given
    parse_debug,        \* whether the debug! call sites are enabled for that call
    parse_result,       \* None, or Some(what that call produced)
    property_item,      \* the text Property::from is given
    property_result,    \* None, or Some(the Property that call produced)
    node_self,          \* a Node that add_asset and remove_asset are called on
    node_call,          \* None, or Some(the last of those calls, with its argument)
    spawn_asset,        \* a Player that GameWorld::spawn is called on
    spawn_result,       \* None, or Some(the Result that call returned)
    world_call          \* None, or Some(the last add_node or add_spwan_node call)

vars == <<server_client_id, handlers, open_sessions, command_q, data_q,
          senders_dropped, stalled_handles, world, players, engine, handle_calls, error_log,
          budget, last_callback, parse_item, parse_debug, parse_result,
          property_item, property_result, node_self, node_call,
          spawn_asset, spawn_result, world_call>>

gateway_vars == <<server_client_id, handlers, last_callback>>
engine_vars == <<players, engine, handle_calls, error_log>>
grammar_vars == <<parse_item, parse_debug, parse_result>>
property_vars == <<property_item, property_result>>
\* The arguments and results of the functions the model calls on their own.
node_vars == <<node_self, node_call>>
spawn_vars == <<spawn_asset, spawn_result, world_call>>
call_vars == <<grammar_vars, property_vars, node_vars, spawn_vars>>
\* The server and the world task.
program_vars == <<server_client_id, handlers, last_callback, open_sessions,
                  command_q, data_q, senders_dropped, stalled_handles, world,
                  players, engine, handle_calls, error_log, budget>>

\* The world task: running, or ended by a panic with message msg while it
\* processed a message of channel on ("command" or "data").
Running == [state |-> "running", on |-> "", panic |-> ""]
Panicked(on, msg) == [state |-> "panicked", on |-> on, panic |-> msg]
\* The world task suspended in handle.data(..).await: the send on handle has
\* not completed; msg is the message of the expect that follows it.
Suspended(on, msg, handle) ==
    [state |-> "suspended", on |-> on, panic |-> msg, handle |-> handle]

\* enum Command
Register(client_id, username, channel_id, handle) ==
    [cmd |-> "Register", client_id |-> client_id, username |-> username,
     channel_id |-> channel_id, handle |-> handle]
Hangup(client_id) == [cmd |-> "Hangup", client_id |-> client_id]

\* DataMessage::new
DataMessage_new(client_id, data) == [client_id |-> client_id, data |-> data]

\* init_ssh_server: the Server every handler is cloned from.
init_ssh_server ==
    [client_username |-> None, client_id |-> 0, echo |-> FALSE, data_buffer |-> <<>>,
     server_allowed_keys |-> AllowedKeys]

\* The part of a connection that is not a field of Server: where the
\* connection stands in the protocol, the result of the last authentication
\* request, the session channels it has open, the send its callback is
\* suspended in, and what the last callback passed to Session::data.
NewConnection ==
    [state |-> "Connected", auth |-> "", channels |-> {}, awaiting |-> None,
     session_data |-> None]

\* A connection that has ended: its handler has been dropped.
ClosedConnection(client_id) ==
    [init_ssh_server EXCEPT !.client_id = client_id]
    @@ [NewConnection EXCEPT !.state = "Closed"]

\* No line is being parsed on its own.
NoParse ==
    /\ parse_item = <<>>
    /\ parse_debug = FALSE
    /\ parse_result = None

\* No word is being turned into a Property on its own.
NoProperty ==
    /\ property_item = <<>>
    /\ property_result = None

\* No Node is being built on its own.
NoNode ==
    /\ node_self = Node_new(0)
    /\ node_call = None

\* No asset is being spawned on its own.
NoSpawn ==
    /\ spawn_asset = Player_new("", [channel |-> 0, handle |-> 0])
    /\ spawn_result = None
    /\ world_call = None

\* No function is being called on its own.
NoCall == NoParse /\ NoProperty /\ NoNode /\ NoSpawn

\* The server and the world task as main() starts them, left alone.
ProgramIdle ==
    /\ server_client_id = 0
    /\ handlers = <<>>
    /\ last_callback = None
    /\ open_sessions = {}
    /\ command_q = <<>>
    /\ data_q = <<>>
    /\ senders_dropped = FALSE
    /\ stalled_handles = {}
    /\ world = MainWorld
    /\ players = <<>>
    /\ engine = Running
    /\ handle_calls = [h \in ClientIds |-> <<>>]
    /\ error_log = ""
    /\ budget = 0

InitCommon ==
    /\ server_client_id = 0
    /\ handlers = <<>>
    /\ command_q = <<>>
    /\ data_q = <<>>
    /\ senders_dropped = FALSE
    /\ stalled_handles = {}
    /\ world \in Worlds
    /\ players = <<>>
    /\ engine = Running
    /\ handle_calls = [h \in ClientIds |-> <<>>]
    /\ error_log = ""
    /\ budget = 0
    /\ last_callback = None
    /\ NoCall

\* main(): the world task is spawned and the server listens; no connection yet.
Init == InitCommon /\ open_sessions = {}

(***************************************************************************)
(* The Gateway (connection_manager/ssh_server.rs)                          *)
(***************************************************************************)

\* A send that never waits for room: the message is put on the channel
\* whatever it holds.
SendOutcome_never_waits(n) ==
    IF engine.state = "panicked" THEN "err" ELSE "ok"

\* Sender::send(msg).await on a channel holding n messages: Err at once when
\* the Receiver is gone (the world task has ended), Ok at once when there is
\* room, and suspended otherwise.
SendOutcome(n) ==
    IF engine.state = "panicked" THEN "err"
    ELSE IF n < QueueCapacity THEN "ok"
    ELSE "full"

\* The welcome message of channel_open_session:
\* format!("{}Welcome.{}\r\n", color::Fg(color::Cyan), color::Fg(color::Reset))
WelcomeMessage ==
    <<27,91,51,56,59,53,59,54,109,87,101,108,99,111,109,101,46,27,91,51,57,109,13,10>>

\* An event of the environment, counted against MaxEvents.
Event ==
    /\ budget < MaxEvents
    /\ budget' = budget + 1

\* The transport invokes callback op of the handler of connection c, for
\* channel channel and with argument arg (the key, the password, the packet).
Called(op, c, channel, arg) ==
    last_callback' = Some([op |-> op, c |-> c, channel |-> channel, arg |-> arg])

\* A Server::new that hands out its clone and keeps its client_id.
Accept_same_id ==
    /\ server_client_id < MaxConns
    /\ handlers' = (server_client_id :>
                       ([init_ssh_server EXCEPT !.client_id = server_client_id]
                        @@ NewConnection)) @@ handlers
    /\ server_client_id' = server_client_id
    /\ open_sessions' = open_sessions \cup {server_client_id}
    /\ Event
    /\ Called("new", server_client_id, 0, <<>>)
    /\ UNCHANGED <<command_q, data_q, senders_dropped, stalled_handles, world, call_vars, engine_vars>>

\* impl server::Server for Server: new() hands out a clone and then
\* increments client_id.
Accept ==
    /\ server_client_id < MaxConns
    /\ handlers' = (server_client_id :>
                       ([init_ssh_server EXCEPT !.client_id = server_client_id]
                        @@ NewConnection)) @@ handlers
    /\ server_client_id' = server_client_id + 1
    /\ open_sessions' = open_sessions \cup {server_client_id}
    /\ Event
    /\ Called("new", server_client_id, 0, <<>>)
    /\ UNCHANGED <<command_q, data_q, senders_dropped, stalled_handles, world, call_vars, engine_vars>>

\* A connection that may still authenticate.
CanAuth(c) ==
    /\ c \in DOMAIN handlers
    /\ handlers[c].state = "Connected"

\* Server::auth_none
auth_none(c, user) ==
    /\ CanAuth(c)
    /\ handlers' = [handlers EXCEPT ![c].auth = "Reject"]
    /\ Event
    /\ Called("auth_none", c, 0, <<>>)
    /\ UNCHANGED <<server_client_id, open_sessions, command_q, data_q,
                   senders_dropped, stalled_handles, world, call_vars, engine_vars>>

\* Server::auth_password
auth_password(c, user, password) ==
    /\ CanAuth(c)
    /\ handlers' = [handlers EXCEPT ![c].auth = "Reject"]
    /\ Event
    /\ Called("auth_password", c, 0, password)
    /\ UNCHANGED <<server_client_id, open_sessions, command_q, data_q,
                   senders_dropped, stalled_handles, world, call_vars, engine_vars>>

\* A loop over server_allowed_keys that compares the keys byte for byte.
KeyAllowed_exact(allowed, pubkey_base64) ==
    \E n \in 1..Len(allowed) : allowed[n] = pubkey_base64

\* The loop of auth_publickey over server_allowed_keys.
KeyAllowed(allowed, pubkey_base64) ==
    \E n \in 1..Len(allowed) : eq_ignore_ascii_case(allowed[n], pubkey_base64)

\* Server::auth_publickey
auth_publickey(c, user, pubkey_base64) ==
    /\ CanAuth(c)
    /\ handlers' =
         [handlers EXCEPT
            ![c].client_username = Some(user),
            ![c].auth = IF KeyAllowed(handlers[c].server_allowed_keys, pubkey_base64)
                        THEN "Accept" ELSE "Reject",
            ![c].state = IF KeyAllowed(handlers[c].server_allowed_keys, pubkey_base64)
                         THEN "Authenticated" ELSE "Connected"]
    /\ Event
    /\ Called("auth_publickey", c, 0, pubkey_base64)
    /\ UNCHANGED <<server_client_id, open_sessions, command_q, data_q,
                   senders_dropped, stalled_handles, world, call_vars, engine_vars>>

\* Server::channel_open_session.  The Register command is sent first; the
\* callback is suspended in the send while the command channel is full, and
\* the welcome message is passed to the session once the send has returned.
channel_open_session(c, channel) ==
    LET h == handlers[c]
        registration_command == Register(h.client_id, h.client_username[1], channel, c)
        outcome == SendOutcome(Len(command_q))
    IN  /\ c \in DOMAIN handlers
        /\ h.state \in {"Authenticated", "Open"}
        /\ h.awaiting = None
        /\ channel = Cardinality(h.channels)
        /\ Event
        /\ Called("channel_open_session", c, channel, <<>>)
        /\ command_q' = IF outcome = "ok" THEN Append(command_q, registration_command)
                        ELSE command_q
        /\ handlers' =
             [handlers EXCEPT
                ![c].state = "Open",
                ![c].channels = @ \cup {channel},
                ![c].awaiting =
                    IF outcome = "full"
                    THEN Some([queue |-> "command", msg |-> registration_command,
                               channel |-> channel])
                    ELSE None,
                ![c].session_data =
                    IF outcome = "full" THEN None
                    ELSE Some([channel |-> channel, data |-> WelcomeMessage])]
        /\ UNCHANGED <<server_client_id, open_sessions, data_q, senders_dropped, stalled_handles,
                       world, call_vars, engine_vars>>

\* An echo that passes every packet back as it came.
echo_back_verbatim(h, channel, data) ==
    IF ~h.echo THEN None ELSE Some([channel |-> channel, data |-> data])

\* The echo of Server::data: with echo on, a packet that is one CR is passed
\* to the session as CR LF and any other packet as it came.
echo_back(h, channel, data) ==
    IF ~h.echo THEN None
    ELSE IF data = <<13>> THEN Some([channel |-> channel, data |-> <<13, 10>>])
    ELSE Some([channel |-> channel, data |-> data])

\* The synchronous part of Server::data: the handler after the packet, what
\* is echoed, and the line to send to the world, if any.
data_sync(h, channel, data) ==
    LET process_condition == data = <<13>>
        echoed == echo_back(h, channel, data)
    IN  IF ~process_condition
        THEN [handler |-> [h EXCEPT !.data_buffer = @ \o data, !.session_data = echoed],
              data_to_send |-> None]
        ELSE IF eq_ignore_ascii_case(h.data_buffer, <<101,99,104,111,32,111,110>>)
        THEN [handler |-> [h EXCEPT !.echo = TRUE, !.data_buffer = <<>>,
                                    !.session_data = echoed],
              data_to_send |-> None]
        ELSE IF eq_ignore_ascii_case(h.data_buffer, <<101,99,104,111,32,111,102,102>>)
        THEN [handler |-> [h EXCEPT !.echo = FALSE, !.data_buffer = <<>>,
                                    !.session_data = echoed],
              data_to_send |-> None]
        ELSE IF eq_ignore_ascii_case(h.data_buffer, <<101,99,104,111>>)
        THEN [handler |-> [h EXCEPT !.echo = ~h.echo, !.data_buffer = <<>>,
                                    !.session_data = echoed],
              data_to_send |-> None]
        ELSE [handler |-> [h EXCEPT !.data_buffer = <<>>, !.session_data = echoed],
              data_to_send |-> Some(h.data_buffer)]

\* Server::data.  The DataMessage is sent after the synchronous part; the
\* callback is suspended in the send while the data channel is full.
data(c, channel, packet) ==
    LET h == handlers[c]
        r == data_sync(h, channel, packet)
        data_message == DataMessage_new(h.client_id, r.data_to_send[1])
        outcome == SendOutcome(Len(data_q))
    IN  /\ c \in DOMAIN handlers
        /\ h.state = "Open"
        /\ h.awaiting = None
        /\ channel \in h.channels
        /\ Event
        /\ Called("data", c, channel, packet)
        /\ data_q' = IF r.data_to_send # None /\ outcome = "ok"
                     THEN Append(data_q, data_message) ELSE data_q
        /\ handlers' =
             [handlers EXCEPT
                ![c] = IF r.data_to_send # None /\ outcome = "full"
                       THEN [r.handler EXCEPT
                               !.awaiting = Some([queue |-> "data", msg |-> data_message,
                                                  channel |-> channel])]
                       ELSE r.handler]
        /\ UNCHANGED <<server_client_id, open_sessions, command_q, senders_dropped, stalled_handles,
                       world, call_vars, engine_vars>>

\* A callback suspended in Sender::send resumes: the message is put on its
\* channel when there is room, or the send returns Err when the Receiver is
\* gone; channel_open_session then passes the welcome message to the session.
send_resumes(c) ==
    LET h == handlers[c]
        w == h.awaiting[1]
        outcome == SendOutcome(IF w.queue = "command" THEN Len(command_q) ELSE Len(data_q))
    IN  /\ c \in DOMAIN handlers
        /\ h.awaiting # None
        /\ outcome # "full"
        /\ command_q' = IF w.queue = "command" /\ outcome = "ok"
                        THEN Append(command_q, w.msg) ELSE command_q
        /\ data_q' = IF w.queue = "data" /\ outcome = "ok"
                     THEN Append(data_q, w.msg) ELSE data_q
        /\ handlers' =
             [handlers EXCEPT
                ![c].awaiting = None,
                ![c].session_data =
                    IF w.queue = "command"
                    THEN Some([channel |-> w.channel, data |-> WelcomeMessage])
                    ELSE @]
        /\ UNCHANGED <<server_client_id, open_sessions, senders_dropped, stalled_handles, world, call_vars,
                       engine_vars, budget, last_callback>>

\* Server::signal: logged and ignored.
signal(c, channel) ==
    /\ c \in DOMAIN handlers
    /\ handlers[c].state = "Open"
    /\ handlers[c].awaiting = None
    /\ channel \in handlers[c].channels
    /\ handlers' = [handlers EXCEPT ![c].session_data = None]
    /\ Event
    /\ Called("signal", c, channel, <<>>)
    /\ UNCHANGED <<server_client_id, open_sessions, command_q, data_q,
                   senders_dropped, stalled_handles, world, call_vars, engine_vars>>

\* An end of connection in which the handler itself takes the player of its
\* connection out of the player table.
connection_closed_removes_player(c) ==
    /\ c \in DOMAIN handlers
    /\ handlers[c].state # "Closed"
    /\ handlers' = [handlers EXCEPT ![c] = ClosedConnection(handlers[c].client_id)]
    /\ open_sessions' = open_sessions \ {c}
    /\ players' = [d \in DOMAIN players \ {c} |-> players[d]]
    /\ Event
    /\ Called("closed", c, 0, <<>>)
    /\ UNCHANGED <<server_client_id, command_q, data_q, senders_dropped,
                   stalled_handles, world, call_vars, engine, handle_calls, error_log>>

\* The connection ends (time-out, client close, transport loss): the
\* transport drops the handler, with the send it may be suspended in, and
\* the session no longer receives from its Handle.  The handler has no
\* callback for it and nothing is sent to the world.
connection_closed(c) ==
    /\ c \in DOMAIN handlers
    /\ handlers[c].state # "Closed"
    /\ handlers' = [handlers EXCEPT ![c] = ClosedConnection(handlers[c].client_id)]
    /\ open_sessions' = open_sessions \ {c}
    /\ Event
    /\ Called("closed", c, 0, <<>>)
    /\ UNCHANGED <<server_client_id, command_q, data_q, senders_dropped, stalled_handles, world, call_vars,
                   engine_vars>>

(***************************************************************************)
(* The Engine (world/mod.rs)                                               *)
(***************************************************************************)

\* Handle::data(channel, bytes).await: the call is made on the handle; it
\* returns Err when the session of the handle has gone, and does not return
\* while the session takes no message from its Handle.
Handle_data(calls, handle, channel, bytes) ==
    [calls |-> [calls EXCEPT ![handle] = Append(@, [channel |-> channel, data |-> bytes])],
     result |-> IF handle \notin open_sessions THEN Err("send failed")
                ELSE IF handle \in stalled_handles THEN Err("pending")
                ELSE Ok("sent")]

\* What a step of the world task leaves: the player table, the calls made on
\* the handles, whether the task still runs, and the last error logged.
EngineResult(p, calls, e, log) ==
    [players |-> p, handle_calls |-> calls, engine |-> e, error_log |-> log]

\* A reply that is sent on the handle of the first connection, whichever
\* player it answers.
SendExpect_on_first_handle(p, calls, session, bytes, on, msg, log) ==
    LET sent == Handle_data(calls, 0, session.channel, bytes)
    IN  EngineResult(p, sent.calls,
                     IF IsOk(sent.result) THEN Running
                     ELSE IF sent.result.val = "pending" THEN Suspended(on, msg, 0)
                     ELSE Panicked(on, msg), log)

\* A reply to a player, followed by .expect(msg) on the result of the send.
SendExpect(p, calls, session, bytes, on, msg, log) ==
    LET sent == Handle_data(calls, session.handle, session.channel, bytes)
    IN  EngineResult(p, sent.calls,
                     IF IsOk(sent.result) THEN Running
                     ELSE IF sent.result.val = "pending"
                          THEN Suspended(on, msg, session.handle)
                     ELSE Panicked(on, msg), log)

\* fn process_command.  screen is the result of
\* ScreenType::Welcome.display_ansi().
process_command(command, screen) ==
    IF command.cmd = "Register"
    THEN LET s == spawn(world,
                        Player_new(command.username,
                                   [channel |-> command.channel_id,
                                    handle |-> command.handle]))
         IN  IF IsOk(s.result)
             THEN LET inserted == (command.client_id :> s.asset) @@ players
                  IN  IF IsOk(screen)
                      THEN SendExpect(inserted, handle_calls,
                                      [channel |-> command.channel_id,
                                       handle |-> command.handle],
                                      screen.val, "command",
                                      "Could not send registration msg.", error_log)
                      ELSE EngineResult(inserted, handle_calls, Running,
                                        "Error sending welcome screen to client")
             ELSE EngineResult(players, handle_calls,
                               Panicked("command", "not yet implemented"), error_log)
    ELSE EngineResult(players, handle_calls,
                      Panicked("command", "not yet implemented"), error_log)

\* The error! line of the None arm of process_data.
NoActivePlayerLog ==
    "Received data message but no active player found for the client that sent the message."

\* A None arm that answers the sender's connection instead of discarding the
\* message.
no_active_player_replies ==
    EngineResult(players,
                 [h \in ClientIds |->
                    Append(handle_calls[h],
                           [channel |-> 0, data |-> "Error 23: Command not found.\r\n"])],
                 Running, NoActivePlayerLog)

\* The None arm of players.get(&data_message.client_id) in process_data: the
\* message is discarded and the error is logged.
no_active_player == EngineResult(players, handle_calls, Running, NoActivePlayerLog)

\* fn process_data.  debug is whether the debug! call sites of the grammar
\* are enabled.
process_data(data_message, debug) ==
    IF data_message.client_id \in DOMAIN players
    THEN LET player_info == players[data_message.client_id]
             a == Action_try_from(data_message.data, debug)
             reply(bytes, log) ==
                 SendExpect(players, handle_calls, player_info.active_session, bytes,
                            "data", "Could not send data message to client.", log)
         IN  IF a.tag = "Panic"
             THEN EngineResult(players, handle_calls, Panicked("data", a.val), error_log)
             ELSE IF IsOk(a)
             THEN IF player_info.location # None
                  THEN LET node == Arena_get(world.nodes, player_info.location[1])
                       IN  IF node # None
                           THEN reply(Node_react_to(node[1], a.val) \o "\r\n", error_log)
                           ELSE reply("A glitch in the matrix occured.\r\n",
                                      "Location index cannot be mapped to node")
                  ELSE reply("In limbo everything is possible. And nothing. Makes you wonder...\r\n",
                             error_log)
             ELSE reply("Error 23: Command not found.\r\n", error_log)
    ELSE no_active_player

\* A step of the world task takes effect.  A panic unwinds run(): the player
\* table and both Receivers are dropped, and with the Receivers the messages
\* still in the channels.
EngineStep(r, commands_left, data_left) ==
    /\ engine' = r.engine
    /\ handle_calls' = r.handle_calls
    /\ error_log' = r.error_log
    /\ players' = IF r.engine.state # "panicked" THEN r.players ELSE <<>>
    /\ command_q' = IF r.engine.state # "panicked" THEN commands_left ELSE <<>>
    /\ data_q' = IF r.engine.state # "panicked" THEN data_left ELSE <<>>

\* The first arm of select! in run(): a command is received and processed.
EngineCommand ==
    /\ engine.state = "running"
    /\ command_q # <<>>
    /\ \E screen \in {Ok(WelcomeScreen), Err("io::Error")} :
         EngineStep(process_command(Head(command_q), screen), Tail(command_q), data_q)
    /\ UNCHANGED <<gateway_vars, open_sessions, senders_dropped, stalled_handles, world, call_vars, budget>>

\* A second arm that receives the message sent last.
EngineData_newest_first ==
    /\ engine.state = "running"
    /\ data_q # <<>>
    /\ \E debug \in BOOLEAN :
         EngineStep(process_data(data_q[Len(data_q)], debug), command_q,
                    SubSeq(data_q, 1, Len(data_q) - 1))
    /\ UNCHANGED <<gateway_vars, open_sessions, senders_dropped, stalled_handles, world, call_vars, budget>>

\* The second arm of select!: a data message is received and processed.
EngineData ==
    /\ engine.state = "running"
    /\ data_q # <<>>
    /\ \E debug \in BOOLEAN :
         EngineStep(process_data(Head(data_q), debug), command_q, Tail(data_q))
    /\ UNCHANGED <<gateway_vars, open_sessions, senders_dropped, stalled_handles, world, call_vars, budget>>

\* The send the world task is suspended in completes: the session takes
\* messages from its Handle again, or has gone and the send returns Err, on
\* which the expect panics.
EngineSendCompletes ==
    /\ engine.state = "suspended"
    /\ engine.handle \notin stalled_handles \/ engine.handle \notin open_sessions
    /\ EngineStep(EngineResult(players, handle_calls,
                                IF engine.handle \in open_sessions THEN Running
                                ELSE Panicked(engine.on, engine.panic),
                                error_log),
                   command_q, data_q)
    /\ UNCHANGED <<gateway_vars, open_sessions, senders_dropped, stalled_handles,
                   world, call_vars, budget>>

\* The else arm of select!: both recv() returned None, which they do once
\* every Sender is dropped and the channels are empty.  The error is logged
\* and the loop goes round again.
EngineBothClosed ==
    /\ engine.state = "running"
    /\ senders_dropped
    /\ command_q = <<>>
    /\ data_q = <<>>
    /\ error_log' = "Both channels closed"
    /\ UNCHANGED <<gateway_vars, open_sessions, command_q, data_q, senders_dropped, stalled_handles,
                   world, call_vars, players, engine, handle_calls, budget>>

(***************************************************************************)
(* The server: Gateway, channels and Engine                                *)
(***************************************************************************)

Next ==
    \/ Accept
    \/ \E c \in ClientIds, user \in Users : auth_none(c, user)
    \/ \E c \in ClientIds, user \in Users, password \in PresentedKeys :
         auth_password(c, user, password)
    \/ \E c \in ClientIds, user \in Users, key \in PresentedKeys :
         auth_publickey(c, user, key)
    \/ \E c \in ClientIds, channel \in ChannelIds : channel_open_session(c, channel)
    \/ \E c \in ClientIds, channel \in ChannelIds, packet \in Packets :
         data(c, channel, packet)
    \/ \E c \in ClientIds : send_resumes(c)
    \/ \E c \in ClientIds, channel \in ChannelIds : signal(c, channel)
    \/ \E c \in ClientIds : connection_closed(c)
    \/ EngineCommand
    \/ EngineData

Spec == Init /\ [][Next]_vars

(***************************************************************************)
(* The Engine on its own: run() with arbitrary producers on its channels   *)
(***************************************************************************)

\* Every Handle a Register may carry is the handle of a live session.
InitEngine == InitCommon /\ open_sessions = ClientIds

\* A step of a producer, counted against MaxMessages.
Produced ==
    /\ budget < MaxMessages
    /\ budget' = budget + 1

\* A producer sends Register(c, ...) on the command channel (it waits while
\* the channel is full).
ProduceRegister(c, user, channel) ==
    /\ ~senders_dropped
    /\ SendOutcome(Len(command_q)) = "ok"
    /\ Produced
    /\ command_q' = Append(command_q, Register(c, user, channel, c))
    /\ UNCHANGED <<gateway_vars, open_sessions, data_q, senders_dropped, stalled_handles, world, call_vars,
                   engine_vars>>

\* A producer sends Hangup(c) on the command channel.
ProduceHangup(c) ==
    /\ ~senders_dropped
    /\ SendOutcome(Len(command_q)) = "ok"
    /\ Produced
    /\ command_q' = Append(command_q, Hangup(c))
    /\ UNCHANGED <<gateway_vars, open_sessions, data_q, senders_dropped, stalled_handles, world, call_vars,
                   engine_vars>>

\* A producer sends a line on the data channel.
ProduceData(c, line) ==
    /\ ~senders_dropped
    /\ SendOutcome(Len(data_q)) = "ok"
    /\ Produced
    /\ data_q' = Append(data_q, DataMessage_new(c, line))
    /\ UNCHANGED <<gateway_vars, open_sessions, command_q, senders_dropped, stalled_handles, world, call_vars,
                   engine_vars>>

\* The session behind a Handle ends.
SessionEnds(c) ==
    /\ c \in open_sessions
    /\ Produced
    /\ open_sessions' = open_sessions \ {c}
    /\ UNCHANGED <<gateway_vars, command_q, data_q, senders_dropped, stalled_handles, world, call_vars,
                   engine_vars>>

\* The session behind a Handle stops taking messages from it (its client
\* does not read, or the session is busy).
SessionStalls(c) ==
    /\ c \in open_sessions \ stalled_handles
    /\ Produced
    /\ stalled_handles' = stalled_handles \cup {c}
    /\ UNCHANGED <<gateway_vars, open_sessions, command_q, data_q, senders_dropped,
                   world, call_vars, engine_vars>>

\* The session behind a Handle takes messages from it again.
SessionDrains(c) ==
    /\ c \in stalled_handles
    /\ Produced
    /\ stalled_handles' = stalled_handles \ {c}
    /\ UNCHANGED <<gateway_vars, open_sessions, command_q, data_q, senders_dropped,
                   world, call_vars, engine_vars>>

\* The last Sender of both channels is dropped.
SendersDropped ==
    /\ ~senders_dropped
    /\ Produced
    /\ senders_dropped' = TRUE
    /\ UNCHANGED <<gateway_vars, open_sessions, command_q, data_q, world, call_vars,
                   engine_vars, stalled_handles>>

NextEngine ==
    \/ \E c \in ClientIds, user \in Users, channel \in {0, 1} :
         ProduceRegister(c, user, channel)
    \/ \E c \in ClientIds : ProduceHangup(c)
    \/ \E c \in ClientIds, line \in Lines : ProduceData(c, line)
    \/ \E c \in ClientIds : SessionEnds(c)
    \/ \E c \in ClientIds : SessionStalls(c)
    \/ \E c \in ClientIds : SessionDrains(c)
    \/ SendersDropped
    \/ EngineCommand
    \/ EngineData
    \/ EngineSendCompletes
    \/ EngineBothClosed

SpecEngine == InitEngine /\ [][NextEngine]_vars

(***************************************************************************)
(* The Engine with every connection registered: run() after it has         *)
(* processed one Register per connection, with producers of lines          *)
(***************************************************************************)

\* The lines the registered connections send.
LookLines == { <<108,111,111,107>>, <<114,101,97,100>> }

\* The Register of connection c, on its first channel.
RegisterOf(c) == Register(c, "neo", 0, c)

\* The player process_command stores for Register(c) in the world of main().
RegisteredPlayer(c) ==
    spawn(MainWorld,
          Player_new(RegisterOf(c).username,
                     [channel |-> RegisterOf(c).channel_id,
                      handle |-> RegisterOf(c).handle])).asset

\* run() once it has processed Register(c) for every connection c: each has
\* its Player and has been sent the welcome screen.
InitLook ==
    /\ server_client_id = 0
    /\ handlers = <<>>
    /\ last_callback = None
    /\ open_sessions = ClientIds
    /\ command_q = <<>>
    /\ data_q = <<>>
    /\ senders_dropped = FALSE
    /\ stalled_handles = {}
    /\ world = MainWorld
    /\ players = [c \in ClientIds |-> RegisteredPlayer(c)]
    /\ engine = Running
    /\ handle_calls = [c \in ClientIds |->
                         <<[channel |-> RegisterOf(c).channel_id, data |-> WelcomeScreen]>>]
    /\ error_log = ""
    /\ budget = 0
    /\ NoCall

NextLook ==
    \/ \E c \in ClientIds, line \in LookLines : ProduceData(c, line)
    \/ EngineData

SpecLook == InitLook /\ [][NextLook]_vars

(***************************************************************************)
(* The Engine and the verbs: players register and type look, enter, open   *)
(***************************************************************************)

\* The lines the players type: look, enter, open.
ActionLines == { <<108,111,111,107>>, <<101,110,116,101,114>>, <<111,112,101,110>> }

NextActions ==
    \/ \E c \in ClientIds, user \in Users, channel \in {0, 1} :
         ProduceRegister(c, user, channel)
    \/ \E c \in ClientIds, line \in ActionLines : ProduceData(c, line)
    \/ \E c \in ClientIds : SessionEnds(c)
    \/ EngineCommand
    \/ EngineData

SpecActions == InitEngine /\ [][NextActions]_vars

(***************************************************************************)
(* The select! of run() under fair scheduling                              *)
(***************************************************************************)

\* A connection the world task has no Player for sends a line on the data
\* channel, as often as the channel has room: the line is discarded when it
\* is processed, so such lines can keep the data channel filled for ever.
ProduceUnanswered(c, line) ==
    /\ ~senders_dropped
    /\ SendOutcome(Len(data_q)) = "ok"
    /\ c \notin DOMAIN players
    /\ data_q' = Append(data_q, DataMessage_new(c, line))
    /\ UNCHANGED <<gateway_vars, open_sessions, command_q, senders_dropped, stalled_handles, world, call_vars,
                   engine_vars, budget>>

NextFair ==
    \/ \E c \in ClientIds, user \in Users : ProduceRegister(c, user, 0)
    \/ \E c \in ClientIds : ProduceData(c, <<101,110,116,101,114>>)
    \/ \E c \in ClientIds : ProduceUnanswered(c, <<108,111,111,107>>)
    \/ \E c \in ClientIds : SessionEnds(c)
    \/ EngineCommand
    \/ EngineData

\* ENABLED <<EngineData>>_vars, written out: the world task is at its select!
\* and the data channel holds a message.
DataReady == engine.state = "running" /\ data_q # <<>>

\* select! without `biased` polls its arms in random order: an arm whose
\* recv() stays ready is taken sooner or later, whatever the other arm holds.
\* The last conjunct is WF_vars(EngineData) with its ENABLED written out.
SpecFair ==
    /\ InitEngine
    /\ [][NextFair]_vars
    /\ WF_vars(EngineCommand)
    /\ ([]<>(~DataReady) \/ []<><<EngineData>>_vars)

(***************************************************************************)
(* The grammar on its own: Action::try_from applied to one line            *)
(***************************************************************************)

\* str::as_bytes of a text of code points below U+0800: its UTF-8 encoding.
RECURSIVE as_bytes(_)
as_bytes(text) ==
    IF text = <<>> THEN <<>>
    ELSE LET c == Head(text)
         IN  (IF c < 128 THEN <<c>> ELSE <<192 + (c \div 64), 128 + (c % 64)>>)
             \o as_bytes(Tail(text))

\* The verbs of the grammar, in lower case: look, read, enter, connect,
\* access, open.
VerbLook == <<108,111,111,107>>
VerbWords ==
    [Read |-> <<114,101,97,100>>, Enter |-> <<101,110,116,101,114>>,
     Connect |-> <<99,111,110,110,101,99,116>>,
     Access |-> <<97,99,99,101,115,115>>, Open |-> <<111,112,101,110>>]

\* Every way of writing the lower-case ASCII word w in upper and lower case.
RECURSIVE Casings(_)
Casings(w) ==
    IF w = <<>> THEN {<<>>}
    ELSE {<<c>> \o t : c \in {Head(w), Head(w) - 32}, t \in Casings(Tail(w))}

\* The runs of at most n characters of the set chars.
RECURSIVE Runs(_, _)
Runs(chars, n) ==
    IF n = 0 THEN {<<>>}
    ELSE Runs(chars, n - 1) \cup
         {<<c>> \o t : c \in chars, t \in {r \in Runs(chars, n - 1) : Len(r) = n - 1}}

\* Whitespace a client can type after a verb: space, tab, U+00A0.
SpaceChars == {32, 9, 160}

\* look, then whitespace, an optional period, whitespace.
SimpleLookTexts ==
    {look \o a \o dot \o b :
        look \in {VerbLook, <<76,79,79,75>>},
        a \in Runs(SpaceChars, MaxSpaces), dot \in {<<>>, <<46>>},
        b \in Runs(SpaceChars, MaxSpaces)}

\* Words for the places of a complex look: at, On; red, shiny, COLD; port,
\* and the non-ASCII word e-acute t e-acute.
Prepositions == {<<97,116>>, <<79,110>>}
PropertyWords == {<<114,101,100>>, <<115,104,105,110,121>>, <<67,79,76,68>>}
Targets == {<<112,111,114,116>>, <<233,116,233>>}
\* What separates two words: a space, a comma, a comma and a space, spaces
\* and a tab around a comma.
Separators == {<<32>>, <<44>>, <<44,32>>, <<32,44,9>>}
\* What ends the line: nothing, a period, a space and a period and a space.
Endings == {<<>>, <<46>>, <<32,46,32>>}

\* The property words of a line, each with the separator that follows it:
\* at most n of them.
RECURSIVE PropertyLists(_)
PropertyLists(n) ==
    IF n = 0 THEN {<<>>}
    ELSE PropertyLists(n - 1) \cup
         {w \o sep \o t : w \in PropertyWords, sep \in Separators,
                          t \in PropertyLists(n - 1)}

\* look <preposition> <w1>[,] ... <wn> <target>[.]
ComplexLookTexts ==
    {VerbLook \o sp \o prep \o sp \o props \o target \o ending :
        sp \in {<<32>>, <<32,9>>}, prep \in Prepositions,
        props \in PropertyLists(MaxProperties), target \in Targets,
        ending \in Endings}

\* Lines whose leading word is no verb: xyzzy, looking, look-, `Looks at
\* port`, `xyzzy.`, e-acute t e-acute, read_me, open-door, 2look, accessed,
\* -look.
UnknownVerbTexts ==
    { <<120,121,122,122,121>>, <<108,111,111,107,105,110,103>>, <<108,111,111,107,45>>,
      <<76,111,111,107,115,32,97,116,32,112,111,114,116>>, <<120,121,122,122,121,46>>, <<233,116,233>>,
      <<114,101,97,100,95,109,101>>, <<111,112,101,110,45,100,111,111,114>>, <<50,108,111,111,107>>, <<97,99,99,101,115,115,101,100>>, <<45,108,111,111,107>> }

\* Lines that do not start with a word: the empty line, a space and look,
\* a period, ?look, a tab and read, U+00A0 and look.
NoVerbTexts ==
    { <<>>, <<32,108,111,111,107>>, <<46>>, <<63,108,111,111,107>>, <<9,114,101,97,100>>, <<160,108,111,111,107>> }

\* Bytes that are no UTF-8: 0xFF, a lone continuation byte, a lead byte at
\* the end, an overlong NUL, a surrogate, a code point above U+10FFFF, a lead
\* byte followed by `(`, an overlong three-byte sequence, a four-byte
\* sequence cut short, look and 0xFF, `look ` and a lead byte.
InvalidUtf8Inputs ==
    { <<255>>, <<128>>, <<195>>, <<192,128>>, <<237,160,128>>, <<244,144,128,128>>,
      <<195,40>>, <<224,128,128>>, <<240,159,146>>,
      <<108,111,111,107,255>>, <<108,111,111,107,32,195>> }

\* Look lines of neither form: `look port`, `look at 2 ports`, `look at`,
\* `look at red,`, `look at 4 port`, `look.at port`, `LOOK at, port`.
MalformedLookTexts ==
    { <<108,111,111,107,32,112,111,114,116>>, <<108,111,111,107,32,97,116,32,50,32,112,111,114,116,115>>,
      <<108,111,111,107,32,97,116>>, <<108,111,111,107,32,97,116,32,114,101,100,44>>,
      <<108,111,111,107,32,97,116,32,52,32,112,111,114,116>>, <<108,111,111,107,46,97,116,32,112,111,114,116>>,
      <<76,79,79,75,32,97,116,44,32,112,111,114,116>> }

\* What a client may type after a verb without an argument: ` on`,
\* ` the sign.`, a period, a tab and now, two spaces, `, please`, U+00A0 and
\* x, an exclamation mark.
TrailingTexts ==
    { <<32,111,110>>, <<32,116,104,101,32,115,105,103,110,46>>, <<46>>, <<9,110,111,119>>, <<32,32>>, <<44,32,112,108,101,97,115,101>>, <<160,120>>, <<33>> }

\* The verbs without an argument in lower case, in upper case and with a
\* capital, each with text after it.
VerbWithTrailingTexts ==
    {w \o t : w \in UNION {{VerbWords[v], [n \in 1..Len(VerbWords[v]) |-> VerbWords[v][n] - 32],
                              <<VerbWords[v][1] - 32>> \o Tail(VerbWords[v])} : v \in DOMAIN VerbWords},
               t \in TrailingTexts}

\* The lines above as a client sends them.
SimpleLookInputs == {as_bytes(t) : t \in SimpleLookTexts}
ComplexLookInputs == {as_bytes(t) : t \in ComplexLookTexts}

\* The lines Action::try_from is applied to.
GrammarInputs ==
    (UNION {Casings(VerbWords[v]) : v \in DOMAIN VerbWords})
    \cup Casings(VerbLook) \cup SimpleLookInputs \cup ComplexLookInputs
    \cup {as_bytes(t) : t \in UnknownVerbTexts \cup NoVerbTexts \cup MalformedLookTexts
                                \cup VerbWithTrailingTexts}
    \cup InvalidUtf8Inputs

\* One line, not yet parsed; the rest of the program as main() starts it.
InitGrammar ==
    /\ ProgramIdle
    /\ parse_item \in GrammarInputs
    /\ parse_debug \in BOOLEAN
    /\ parse_result = None
    /\ NoProperty
    /\ NoNode
    /\ NoSpawn

\* Action::try_from(item) is called and produces its result.
Parse ==
    /\ parse_result = None
    /\ parse_result' = Some(Action_try_from(parse_item, parse_debug))
    /\ UNCHANGED <<program_vars, parse_item, parse_debug, property_vars, node_vars,
                   spawn_vars>>

NextGrammar == Parse

SpecGrammar == InitGrammar /\ [][NextGrammar]_vars

(***************************************************************************)
(* Property::from on its own                                               *)
(***************************************************************************)

\* The words of the four categories, as the source spells them.
CategoryWords ==
    DOMAIN ColorWords \cup DOMAIN RigidityWords \cup DOMAIN TemperatureWords
    \cup DOMAIN LightingWords

\* Texts that are in no word list: shiny, Shiny, the empty text, reddish,
\* ` red`, `red `, re, darkred, `red,`, hot-cold, E-acute clat, r3d.
CustomTexts ==
    { <<115,104,105,110,121>>, <<83,104,105,110,121>>, <<>>, <<114,101,100,100,105,115,104>>,
      <<32,114,101,100>>, <<114,101,100,32>>, <<114,101>>, <<100,97,114,107,114,101,100>>, <<114,101,100,44>>,
      <<104,111,116,45,99,111,108,100>>, <<201,99,108,97,116>>, <<114,51,100>> }

\* The texts Property::from is applied to: every word of a category in every
\* casing, and the texts of no category.
PropertyInputs == (UNION {Casings(w) : w \in CategoryWords}) \cup CustomTexts

\* One text, not yet turned into a Property; the rest of the program as
\* main() starts it.
InitProperty ==
    /\ ProgramIdle
    /\ NoParse
    /\ property_item \in PropertyInputs
    /\ property_result = None
    /\ NoNode
    /\ NoSpawn

\* Property::from(item) is called and produces its Property.
PropertyFrom ==
    /\ property_result = None
    /\ property_result' = Some(Property_from(property_item))
    /\ UNCHANGED <<program_vars, grammar_vars, property_item, node_vars, spawn_vars>>

NextProperty == PropertyFrom

SpecProperty == InitProperty /\ [][NextProperty]_vars

(***************************************************************************)
(* A Node on its own: add_asset and remove_asset in any order              *)
(***************************************************************************)

\* The ids of the assets, and the assets: for each id a port as Port::new
\* makes it and ports with a description.
AssetIds == 1..MaxAssets
Assets ==
    {Port_new(id) : id \in AssetIds}
    \cup {update_description(Port_new(id), d) : id \in AssetIds, d \in {"A port."}}

\* Node::new(0), nothing called on it; the rest of the program as main()
\* starts it.
InitNode ==
    /\ ProgramIdle
    /\ NoParse
    /\ NoProperty
    /\ NoNode
    /\ NoSpawn

\* node.add_asset(asset)
add_asset(asset) ==
    /\ node_self' = Node_add_asset(node_self, asset)
    /\ node_call' = Some([op |-> "add_asset", arg |-> asset])
    /\ UNCHANGED <<program_vars, grammar_vars, property_vars, spawn_vars>>

\* node.remove_asset(asset_uid)
remove_asset(asset_uid) ==
    /\ node_self' = Node_remove_asset(node_self, asset_uid)
    /\ node_call' = Some([op |-> "remove_asset", arg |-> asset_uid])
    /\ UNCHANGED <<program_vars, grammar_vars, property_vars, spawn_vars>>

\* The actions a Node is asked to react to: look, look at port, look at
\* the red door, enter.
ReactActions ==
    {SimpleLook,
     Look(Some(<<112,111,114,116>>), Some(<<97,116>>), Some(<<>>)),
     Look(Some(<<100,111,111,114>>), Some(<<97,116>>),
          Some(<<Property_from(<<116,104,101>>), Property_from(<<114,101,100>>)>>)),
     Verb("Enter")}

\* node.react_to(&a)
react_to(a) ==
    /\ node_call' = Some([op |-> "react_to", arg |-> a,
                          returns |-> Node_react_to(node_self, a)])
    /\ UNCHANGED <<program_vars, grammar_vars, property_vars, spawn_vars, node_self>>

NextNode ==
    \/ \E asset \in Assets : add_asset(asset)
    \/ \E asset_uid \in AssetIds : remove_asset(asset_uid)
    \/ \E a \in ReactActions : react_to(a)

SpecNode == InitNode /\ [][NextNode]_vars

(***************************************************************************)
(* GameWorld::spawn on its own: a world is built, then an asset is spawned *)
(***************************************************************************)

\* The nodes a world is given: the node of main(), and an empty node.
NodeChoices == {MainNode, Node_new(1)}

\* GameWorld::new, and a Player as Player::new makes it; the server and the
\* world task are not started.
InitSpawn ==
    /\ server_client_id = 0
    /\ handlers = <<>>
    /\ last_callback = None
    /\ open_sessions = {}
    /\ command_q = <<>>
    /\ data_q = <<>>
    /\ senders_dropped = FALSE
    /\ stalled_handles = {}
    /\ world = GameWorld_new("Testworld")
    /\ players = <<>>
    /\ engine = Running
    /\ handle_calls = [h \in ClientIds |-> <<>>]
    /\ error_log = ""
    /\ budget = 0
    /\ NoParse
    /\ NoProperty
    /\ NoNode
    /\ spawn_asset \in {Player_new(user, [channel |-> 0, handle |-> 0]) : user \in Users}
    /\ spawn_result = None
    /\ world_call = None

\* What the steps of this specification leave alone.
spawn_frame ==
    <<server_client_id, handlers, last_callback, open_sessions, command_q, data_q,
      senders_dropped, stalled_handles, players, engine, handle_calls, error_log,
      budget, grammar_vars, property_vars, node_vars>>

\* world.add_spwan_node(node)
WorldAddSpawnNode(n) ==
    /\ spawn_result = None
    /\ Len(world.nodes) < MaxNodes
    /\ world' = add_spwan_node(world, n)
    /\ world_call' = Some([op |-> "add_spwan_node", node |-> n,
                           returns |-> add_spwan_node_returns(world, n)])
    /\ UNCHANGED <<spawn_frame, spawn_asset, spawn_result>>

\* world.add_node(node)
WorldAddNode(n) ==
    /\ spawn_result = None
    /\ Len(world.nodes) < MaxNodes
    /\ world' = add_node(world, n)
    /\ world_call' = Some([op |-> "add_node", node |-> n,
                           returns |-> add_node_returns(world, n)])
    /\ UNCHANGED <<spawn_frame, spawn_asset, spawn_result>>

\* asset.set_spawn_point_index(index), called on the asset directly
SetSpawnPoint(index) ==
    /\ spawn_result = None
    /\ spawn_asset' = set_spawn_point_index(spawn_asset, index)
    /\ UNCHANGED <<spawn_frame, world, spawn_result, world_call>>

\* world.spawn(&mut asset)
Spawn ==
    /\ spawn_result = None
    /\ spawn_asset' = spawn(world, spawn_asset).asset
    /\ spawn_result' = Some(spawn(world, spawn_asset).result)
    /\ UNCHANGED <<spawn_frame, world, world_call>>

NextSpawn ==
    \/ \E n \in NodeChoices : WorldAddSpawnNode(n)
    \/ \E n \in NodeChoices : WorldAddNode(n)
    \/ \E index \in 1..MaxNodes : SetSpawnPoint(index)
    \/ Spawn

SpecSpawn == InitSpawn /\ [][NextSpawn]_vars

(***************************************************************************)
(* Properties                                                              *)
(***************************************************************************)

\* A step in which the world task receives the head of the data channel and
\* processes it: it returns, or is suspended in a send, and the message has
\* left the channel, or it panics in process_data.
DataStep ==
    /\ engine.state = "running"
    /\ data_q # <<>>
    /\ \/ /\ engine'.state \in {"running", "suspended"}
          /\ data_q' = Tail(data_q)
          /\ command_q' = command_q
       \/ engine'.state = "panicked" /\ engine'.on = "data"

\* A step in which the world task receives the head of the command channel
\* and processes it.
CommandStep ==
    /\ engine.state = "running"
    /\ command_q # <<>>
    /\ \/ /\ engine'.state \in {"running", "suspended"}
          /\ command_q' = Tail(command_q)
          /\ data_q' = data_q
       \/ engine'.state = "panicked" /\ engine'.on = "command"

\* The bytes do not parse into an Action.
NotParsable(bytes) == \A debug \in BOOLEAN : ~IsOk(Action_try_from(bytes, debug))

\* The call Handle::data(channel, bytes) has been added to those of handle,
\* and no other call has been made.
OneMoreCall(handle, channel, bytes) ==
    handle_calls' = [handle_calls EXCEPT
                       ![handle] = Append(@, [channel |-> channel, data |-> bytes])]

\* C1: processing a DataMessage never aborts the Engine loop, whatever the
\* bytes of the message are: the world task is never ended by a panic raised
\* while it processes a message of the data channel.
C1_DataNeverAborts == ~(engine.state = "panicked" /\ engine.on = "data")

\* C2: the Engine processes Register(c) before the first DataMessage of c, so
\* no DataMessage is ever discarded for want of an active player.
C2_NoDataBeforeRegister == error_log # NoActivePlayerLog

\* C3: for a registered player, a DataMessage whose bytes do not parse makes
\* the Engine send exactly "Error 23: Command not found." on the player's
\* handle and leaves the player table and the world unchanged.
C3_ParseFailureReply ==
    [][ (/\ DataStep
         /\ Head(data_q).client_id \in DOMAIN players
         /\ NotParsable(Head(data_q).data))
        => LET session == players[Head(data_q).client_id].active_session
           IN  /\ OneMoreCall(session.handle, session.channel,
                              "Error 23: Command not found.\r\n")
               /\ players' = players
               /\ world' = world ]_vars

\* The text of a look at a node: its description, then the describe() text
\* of its sub-assets from the n-th on, each on a line of its own.
RECURSIVE C4_AssetLines(_, _)
C4_AssetLines(node, n) ==
    IF n > Len(node.sub_assets) THEN ""
    ELSE (IF node.sub_assets[n].is_open
          THEN node.sub_assets[n].description \o " The port is open."
          ELSE node.sub_assets[n].description \o " The port is closed.")
         \o "\r\n" \o C4_AssetLines(node, n + 1)

\* C4: a DataMessage `look` of a registered connection, in a world with a
\* spawn node, makes the Engine send on that connection's handle the spawn
\* node's description followed by the describe() text of each sub-asset, one
\* per line, in insertion order.
C4_LookReply ==
    [][ (/\ DataStep
         /\ Head(data_q).client_id \in DOMAIN players
         /\ Head(data_q).data = <<108,111,111,107>>
         /\ world.spawn_nodes # <<>>)
        => LET session == players[Head(data_q).client_id].active_session
               node == world.nodes[world.spawn_nodes[1]]
           IN  /\ session.handle = Head(data_q).client_id
               /\ OneMoreCall(session.handle, session.channel,
                              node.description \o "\r\n" \o C4_AssetLines(node, 1)
                              \o "\r\n") ]_vars

\* C4 witness: a connection has been sent the look of the node main() builds.
C4_Witness ==
    \E c \in ClientIds : \E n \in 1..Len(handle_calls[c]) :
        handle_calls[c][n].data =
            "Around you its dark. You feel more than you see a pulsing ultraviolet light.\r\nA simple port that looks absolutely normal. The port is closed.\r\nA port that has a slight purple shimmering edge. The port is closed.\r\n\r\n"

\* C5: a Register processed in a world without a spawn point makes the
\* Engine send an error screen to the client, close the connection and store
\* no Player, and the Engine keeps running.
C5_NoSpawnPointRejected ==
    [][ (/\ CommandStep
         /\ Head(command_q).cmd = "Register"
         /\ world.spawn_nodes = <<>>)
        => /\ engine'.state = "running"
           /\ Head(command_q).client_id \notin DOMAIN players'
           /\ Len(handle_calls'[Head(command_q).handle])
                = Len(handle_calls[Head(command_q).handle]) + 1
           /\ Head(command_q).handle \notin open_sessions' ]_vars

\* C6: processing Hangup(c) removes the player of c, leaves the entries of
\* the other connections unchanged, and the Engine keeps running.
C6_HangupRemovesPlayer ==
    [][ (CommandStep /\ Head(command_q).cmd = "Hangup")
        => /\ engine'.state = "running"
           /\ Head(command_q).client_id \notin DOMAIN players'
           /\ \A d \in DOMAIN players \ {Head(command_q).client_id} :
                d \in DOMAIN players' /\ players'[d] = players[d] ]_vars

\* C7: a failed send on a player's handle does not halt the Engine loop: the
\* world task is never ended by the expect on the result of a send.
C7_FailedSendNotFatal ==
    engine.panic \notin {"Could not send registration msg.",
                         "Could not send data message to client."}

\* C8: when a registered connection closes, the Gateway puts a Hangup for it
\* on the command channel (or is suspended in sending it).
C8_CloseSurfacesHangup ==
    [][ \A c \in DOMAIN handlers :
          (handlers[c].state = "Open" /\ handlers'[c].state = "Closed")
          => \/ \E n \in 1..Len(command_q') : command_q'[n] = Hangup(c)
             \/ /\ handlers'[c].awaiting # None
                /\ handlers'[c].awaiting[1].msg = Hangup(c) ]_vars

\* C9: a DataMessage whose connection id has no entry in the player table is
\* dropped: no reply is sent to any client, the player table and the world
\* are unchanged, and the Engine keeps running.
C9_UnknownClientDropped ==
    [][ (DataStep /\ Head(data_q).client_id \notin DOMAIN players)
        => /\ handle_calls' = handle_calls
           /\ players' = players
           /\ world' = world
           /\ engine'.state = "running" ]_vars

\* C9 witness: the Engine has discarded a data message for want of a player
\* and still runs.
C9_Witness == error_log = NoActivePlayerLog /\ engine.state = "running"

\* C10: once both channels are closed the Engine loop terminates: the world
\* task does not run on after the else arm of select! has been taken.
C10_ClosedTerminates == error_log = "Both channels closed" => engine.state # "running"

\* The channel a suspended send waits for.
C11_Queue(w) == IF w.queue = "command" THEN command_q ELSE data_q

\* What a step may do to a channel: leave it, take its head (the world task
\* receives), empty it (the Receiver is dropped with the world task), or put
\* one message behind those it holds.
C11_QueueStep(q, qn) ==
    \/ qn = q
    \/ q # <<>> /\ qn = Tail(q)
    \/ engine'.state = "panicked" /\ qn = <<>>
    \/ Len(qn) = Len(q) + 1 /\ SubSeq(qn, 1, Len(q)) = q

\* C11: neither channel ever holds more than its capacity; a handler that
\* sends on a full channel is suspended in the send, and the message of a
\* suspended send is put on its channel when the send resumes: while the
\* world task receives and the connection lasts, a Register or DataMessage
\* is neither dropped nor overwritten because the channel was full.
C11_Backpressure ==
    /\ [](Len(command_q) <= QueueCapacity /\ Len(data_q) <= QueueCapacity)
    /\ [][ \A c \in DOMAIN handlers :
             /\ (handlers[c].awaiting # None)
                => \/ handlers'[c].awaiting = handlers[c].awaiting
                   \/ /\ handlers'[c].awaiting = None
                      /\ IF handlers[c].awaiting[1].queue = "command"
                         THEN command_q' = Append(command_q, handlers[c].awaiting[1].msg)
                         ELSE data_q' = Append(data_q, handlers[c].awaiting[1].msg)
                   \/ engine.state = "panicked"
                   \/ handlers'[c].state = "Closed"
             /\ (handlers[c].awaiting = None /\ handlers'[c].awaiting # None)
                => /\ Len(C11_Queue(handlers'[c].awaiting[1])) = QueueCapacity
                   /\ command_q' = command_q
                   /\ data_q' = data_q ]_vars
    /\ [][ /\ C11_QueueStep(command_q, command_q')
           /\ C11_QueueStep(data_q, data_q') ]_vars

\* C11 witness: a handler is suspended in a send on a channel that is full.
C11_Witness ==
    \E c \in DOMAIN handlers :
        /\ handlers[c].awaiting # None
        /\ Len(C11_Queue(handlers[c].awaiting[1])) = QueueCapacity

\* C12: a player whose reply handle is stalled does not stall the Engine:
\* the world task is never suspended in a send on the stalled handle of a
\* live session while a message of another connection waits on a channel
\* (the task receives nothing until that send completes).
C12_StalledHandleDoesNotStall ==
    ~ /\ engine.state = "suspended"
      /\ engine.handle \in stalled_handles \cap open_sessions
      /\ \/ \E n \in 1..Len(command_q) : command_q[n].client_id # engine.handle
         \/ \E n \in 1..Len(data_q) : data_q[n].client_id # engine.handle

\* The number of replies the connections have been sent since they were
\* registered (the first call on each handle is the welcome screen).
RECURSIVE C13_Replies(_)
C13_Replies(cs) ==
    IF cs = {} THEN 0
    ELSE LET c == CHOOSE x \in cs : TRUE
         IN  (Len(handle_calls[c]) - 1) + C13_Replies(cs \ {c})

\* The reply to `look` of the player of connection c: the look response of
\* the node the player is located at.
C13_LookOf(c) ==
    LET node == world.nodes[players[c].location[1]]
    IN  node.description \o "\r\n" \o C4_AssetLines(node, 1) \o "\r\n"

\* C13: when the registered connections enqueue lines concurrently (their
\* sessions live and taking messages), in every interleaving every line
\* enqueued is either still on the data channel or has been answered exactly
\* once; the reply to a `look` of connection c is
\* sent on the handle and channel of c, on no other handle, and is the look
\* response of the node at which the player of c is located.
C13_ConcurrentLooks ==
    /\ [](C13_Replies(ClientIds) + Len(data_q) = budget)
    /\ [][ (DataStep /\ Head(data_q).data = <<108,111,111,107>>)
           => /\ players[Head(data_q).client_id].active_session.handle
                   = Head(data_q).client_id
              /\ handle_calls' =
                   [handle_calls EXCEPT
                      ![Head(data_q).client_id] =
                          Append(@, [channel |-> players[Head(data_q).client_id]
                                                    .active_session.channel,
                                     data |-> C13_LookOf(Head(data_q).client_id)])] ]_vars

\* C13 witness: every connection has enqueued `look`, and each has been sent
\* exactly one reply, the look response, on its own handle.
C13_Witness ==
    /\ data_q = <<>>
    /\ \A c \in ClientIds :
         /\ Len(handle_calls[c]) = 2
         /\ handle_calls[c][2].data = C13_LookOf(c)

\* A step of the Gateway: a callback of a handler is invoked, or a callback
\* suspended in a send resumes.
C14_GatewayStep ==
    \/ budget' # budget
    \/ last_callback' # last_callback
    \/ handlers' # handlers

\* C14: every Gateway event (connect, authentication, session open, inbound
\* data, signal, end of connection) leaves the world, the player table and
\* the rest of the Engine's state unchanged, and changes the handler of no
\* connection but its own; its effect on the channels is to put a message
\* behind those they hold.  The world and the player table change only in
\* steps in which the world task processes a message.
C14_GatewayFrame ==
    /\ [][ C14_GatewayStep
           => /\ world' = world
              /\ players' = players
              /\ engine' = engine
              /\ handle_calls' = handle_calls
              /\ error_log' = error_log
              /\ \A c, d \in DOMAIN handlers :
                   (handlers'[c] # handlers[c] /\ handlers'[d] # handlers[d]) => c = d
              /\ \A c \in DOMAIN handlers :
                   /\ handlers'[c].client_id = handlers[c].client_id
                   /\ handlers'[c].server_allowed_keys = handlers[c].server_allowed_keys
              /\ command_q' = command_q
                 \/ (Len(command_q') = Len(command_q) + 1
                     /\ SubSeq(command_q', 1, Len(command_q)) = command_q)
              /\ data_q' = data_q
                 \/ (Len(data_q') = Len(data_q) + 1
                     /\ SubSeq(data_q', 1, Len(data_q)) = data_q) ]_vars
    /\ [][ (players' # players \/ world' # world) => (CommandStep \/ DataStep) ]_vars

\* C14 witness: a handler has been passed a packet while the player table
\* holds a player.
C14_Witness ==
    /\ players # <<>>
    /\ last_callback # None
    /\ last_callback[1].op = "data"

\* A key with its ASCII letters in lower case.
C15_Folded(key) == [i \in 1..Len(key) |-> IF key[i] \in 65..90 THEN key[i] + 32 ELSE key[i]]

\* C15: an authentication request is accepted if and only if its method is
\* public key and the base64 text of the presented key equals, ASCII letters
\* compared without case, an entry of the configured allow-list; `none` and
\* password requests are rejected whatever the user and the credential.
C15_Authentication ==
    [][ (/\ budget' # budget
         /\ last_callback'[1].op \in {"auth_none", "auth_password", "auth_publickey"})
        => (handlers'[last_callback'[1].c].auth = "Accept"
            <=> /\ last_callback'[1].op = "auth_publickey"
                /\ \E n \in 1..Len(AllowedKeys) :
                     C15_Folded(AllowedKeys[n]) = C15_Folded(last_callback'[1].arg))
           /\ handlers'[last_callback'[1].c].auth \in {"Accept", "Reject"} ]_vars

\* C15 witness: a key that differs from the allow-list entry in the case of
\* its letters has been presented and accepted.
C15_Witness ==
    /\ last_callback # None
    /\ last_callback[1].op = "auth_publickey"
    /\ last_callback[1].arg = <<97,66,99,61>>
    /\ handlers[last_callback[1].c].auth = "Accept"

\* The line of a handler's buffer is the local command cmd, ASCII letters
\* compared without case.
C16_IsCommand(buf, cmd) ==
    /\ Len(buf) = Len(cmd)
    /\ \A i \in 1..Len(buf) :
         (IF buf[i] \in 65..90 THEN buf[i] + 32 ELSE buf[i]) = cmd[i]

\* The DataMessage of connection c with the line buf has been sent on the
\* data channel: it is the last message the channel holds, or the callback
\* is suspended in the send of it, the channel being full.
C16_Sent(c, buf) ==
    \/ data_q' = Append(data_q, [client_id |-> handlers[c].client_id, data |-> buf])
    \/ /\ data_q' = data_q
       /\ Len(data_q) = QueueCapacity
       /\ handlers'[c].awaiting # None
       /\ handlers'[c].awaiting[1].queue = "data"
       /\ handlers'[c].awaiting[1].msg = [client_id |-> handlers[c].client_id, data |-> buf]

\* C16: when a handler is passed a packet that is exactly one CR, then, if
\* its buffered line is `echo on`, `echo off` or `echo` (ASCII letters without
\* case), the echo flag becomes true, false or its negation and nothing is
\* enqueued; otherwise one DataMessage with the connection's id and the
\* buffered bytes is enqueued on the data channel; in both cases the buffer
\* is empty afterwards.  Any other packet is appended to the buffer, enqueues
\* nothing and leaves the echo flag unchanged.
C16_LineHandling ==
    [][ (budget' # budget /\ last_callback'[1].op = "data")
        => LET c == last_callback'[1].c
               packet == last_callback'[1].arg
               buf == handlers[c].data_buffer
           IN  IF packet = <<13>>
               THEN /\ handlers'[c].data_buffer = <<>>
                    /\ IF C16_IsCommand(buf, <<101,99,104,111,32,111,110>>)
                       THEN handlers'[c].echo = TRUE /\ data_q' = data_q
                       ELSE IF C16_IsCommand(buf, <<101,99,104,111,32,111,102,102>>)
                       THEN handlers'[c].echo = FALSE /\ data_q' = data_q
                       ELSE IF C16_IsCommand(buf, <<101,99,104,111>>)
                       THEN handlers'[c].echo = ~handlers[c].echo /\ data_q' = data_q
                       ELSE handlers'[c].echo = handlers[c].echo /\ C16_Sent(c, buf)
               ELSE /\ handlers'[c].data_buffer = buf \o packet
                    /\ handlers'[c].echo = handlers[c].echo
                    /\ data_q' = data_q ]_vars

\* C17: when local echo is enabled as a packet arrives, the packet is echoed
\* to the client as it came, except that a packet that is exactly one CR is
\* echoed as CR LF; when local echo is disabled nothing is echoed.
C17_Echo ==
    [][ (budget' # budget /\ last_callback'[1].op = "data")
        => LET c == last_callback'[1].c
               packet == last_callback'[1].arg
               channel == last_callback'[1].channel
           IN  handlers'[c].session_data =
                 IF ~handlers[c].echo THEN <<>>
                 ELSE IF packet = <<13>>
                      THEN <<[channel |-> channel, data |-> <<13, 10>>]>>
                      ELSE <<[channel |-> channel, data |-> packet]>> ]_vars

\* C17 witness: with echo on, a handler has been passed one CR and has
\* echoed CR LF.
C17_Witness ==
    /\ last_callback # None
    /\ last_callback[1].op = "data"
    /\ last_callback[1].arg = <<13>>
    /\ handlers[last_callback[1].c].session_data
         = <<[channel |-> last_callback[1].channel, data |-> <<13, 10>>]>>

\* C18: every casing variant of read, enter, connect, access and open parses
\* to Read, Enter, Connect, Access and Open, and every casing variant of look
\* is taken as the look verb.
C18_VerbCasing ==
    parse_result # None
    => /\ \A v \in DOMAIN VerbWords :
            parse_item \in Casings(VerbWords[v]) => parse_result[1] = Ok(Verb(v))
       /\ parse_item \in Casings(VerbLook) => parse_result[1] = Ok(SimpleLook)

\* C19: look followed by nothing, or only by whitespace and an optional
\* period with optional whitespace, parses to Look with no target, no
\* preposition and no properties.
C19_SimpleLook ==
    (parse_result # None /\ parse_item \in SimpleLookInputs)
    => parse_result[1] = Ok(SimpleLook)

\* The words of a text: its maximal runs of letters, in order.
RECURSIVE C20_Words(_, _)
C20_Words(text, word) ==
    LET done == IF word = <<>> THEN <<>> ELSE <<word>>
    IN  IF text = <<>> THEN done
        ELSE IF IsLetter(Head(text)) THEN C20_Words(Tail(text), Append(word, Head(text)))
        ELSE done \o C20_Words(Tail(text), <<>>)

\* look at red, shiny port
C20_Example ==
    <<108,111,111,107,32,97,116,32,114,101,100,44,32,115,104,105,110,121,32,112,111,114,116>>

\* What the example parses to: preposition at, target port, properties
\* Color(Red) and Custom("shiny").
C20_ExampleLook ==
    Look(Some(<<112,111,114,116>>), Some(<<97,116>>),
         Some(<<[kind |-> "Color", value |-> "Red"],
                [kind |-> "Custom", value |-> <<115,104,105,110,121>>]>>))

\* C20: look <preposition> <w1>[,] ... <wn> <target>[.] parses to Look with
\* the first word after the verb as preposition, the last word as target and
\* Property::from of the words between them, in input order, as properties;
\* `look at red, shiny port` gives at, port, [Color(Red), Custom("shiny")].
C20_ComplexLook ==
    (parse_result # None /\ parse_item \in ComplexLookInputs)
    => LET text == from_utf8(parse_item).text
           ws == C20_Words(SubSeq(text, Len(VerbLook) + 1, Len(text)), <<>>)
       IN  /\ parse_result[1] =
                Ok(Look(Some(ws[Len(ws)]), Some(ws[1]),
                        Some([n \in 1..(Len(ws) - 2) |-> Property_from(ws[n + 1])])))
           /\ parse_item = C20_Example => parse_result[1] = Ok(C20_ExampleLook)

\* C20 witness: the example has been parsed into its Look.
C20_Witness ==
    /\ parse_item = C20_Example
    /\ parse_result = Some(Ok(C20_ExampleLook))

\* The leading word of a text: its longest prefix of word characters and
\* hyphens.
C21_LeadingWord(text) == SubSeq(text, 1, RunEnd(text, 1, "verb") - 1)

\* The text is UTF-8 and starts with a word that is none of the six verbs in
\* any casing.
C21_UnknownVerb ==
    /\ from_utf8(parse_item).ok
    /\ LET word == C21_LeadingWord(from_utf8(parse_item).text)
       IN  /\ word # <<>>
           /\ word \notin Casings(VerbLook)
           /\ \A v \in DOMAIN VerbWords : word \notin Casings(VerbWords[v])

\* C21: a text whose leading word is none of look, read, enter, connect,
\* access, open in any casing fails with VerbUnknownError.
C21_UnknownVerbError ==
    (parse_result # None /\ C21_UnknownVerb)
    => parse_result[1] = Err("VerbUnknownError")

\* C21 witness: xyzzy has been parsed and has failed with VerbUnknownError.
C21_Witness ==
    /\ parse_item = <<120,121,122,122,121>>
    /\ parse_result = Some(Err("VerbUnknownError"))

\* C22: UTF-8 text with no leading word (the empty line, or text that starts
\* with whitespace or punctuation) fails with VerbUnknownError and in no
\* other way.
C22_NoVerbError ==
    (/\ parse_result # None
     /\ from_utf8(parse_item).ok
     /\ C21_LeadingWord(from_utf8(parse_item).text) = <<>>)
    => parse_result[1] = Err("VerbUnknownError")

\* C23: bytes that are no UTF-8 fail with VerbEncodingError, whatever they
\* are.
C23_EncodingError ==
    (parse_result # None /\ parse_item \in InvalidUtf8Inputs)
    => parse_result[1] = Err("VerbEncodingError")

\* C23 witness: look followed by the byte 0xFF has been parsed and has failed
\* with VerbEncodingError.
C23_Witness ==
    /\ parse_item = <<108,111,111,107,255>>
    /\ parse_result = Some(Err("VerbEncodingError"))

\* The value the word list of a category gives for a text, matched without
\* regard to case and in full; None when the list has no such word.
C24_Match(words, text) ==
    IF \E w \in DOMAIN words : eq_ignore_ascii_case(w, text)
    THEN Some(words[CHOOSE w \in DOMAIN words : eq_ignore_ascii_case(w, text)])
    ELSE None

\* C24: Property::from returns for every text the first category that has
\* the text in its word list, in the order Color, Rigidity, Temperature,
\* Lighting and without regard to case, and Custom with the text as it was
\* given when no category has it; red gives Color(Red), shiny Custom("shiny").
C24_PropertyParse ==
    property_result # None
    => LET t == property_item
           r == property_result[1]
       IN  /\ IF C24_Match(ColorWords, t) # None
              THEN r = [kind |-> "Color", value |-> C24_Match(ColorWords, t)[1]]
              ELSE IF C24_Match(RigidityWords, t) # None
              THEN r = [kind |-> "Rigidity", value |-> C24_Match(RigidityWords, t)[1]]
              ELSE IF C24_Match(TemperatureWords, t) # None
              THEN r = [kind |-> "Temperature", value |-> C24_Match(TemperatureWords, t)[1]]
              ELSE IF C24_Match(LightingWords, t) # None
              THEN r = [kind |-> "Lighting", value |-> C24_Match(LightingWords, t)[1]]
              ELSE r = [kind |-> "Custom", value |-> t]
           /\ t = <<114,101,100>> => r = [kind |-> "Color", value |-> "Red"]
           /\ t = <<115,104,105,110,121>> => r = [kind |-> "Custom", value |-> t]

\* C24 witness: Shiny, which is in no word list, has become Custom("Shiny").
C24_Witness ==
    /\ property_item = <<83,104,105,110,121>>
    /\ property_result = Some([kind |-> "Custom", value |-> <<83,104,105,110,121>>])

\* No two sub-assets of the Node share an id.
C25_Unique ==
    \A m, n \in 1..Len(node_self.sub_assets) :
        uid(node_self.sub_assets[m]) = uid(node_self.sub_assets[n]) => m = n

\* What add_asset does: nothing when a sub-asset has the id of the asset,
\* otherwise the asset is appended at the end.
C25_AddStep ==
    (node_call' # None /\ node_call'[1].op = "add_asset")
    => IF \E n \in 1..Len(node_self.sub_assets) :
              uid(node_self.sub_assets[n]) = uid(node_call'[1].arg)
       THEN node_self' = node_self
       ELSE /\ node_self'.sub_assets = Append(node_self.sub_assets, node_call'[1].arg)
            /\ [node_self' EXCEPT !.sub_assets = <<>>] = [node_self EXCEPT !.sub_assets = <<>>]

\* C25: after any sequence of add_asset and remove_asset no two sub-assets of
\* the Node share an id; add_asset of an asset whose id is present changes
\* nothing, and otherwise appends the asset at the end.
C25_UniqueIds == []C25_Unique /\ [][C25_AddStep]_vars

\* C25 witness: the Node holds two sub-assets, and an asset with the id of
\* the first and another description has just been added without effect.
C25_Witness ==
    /\ Len(node_self.sub_assets) = 2
    /\ node_call # None
    /\ node_call[1].op = "add_asset"
    /\ uid(node_call[1].arg) = uid(node_self.sub_assets[1])
    /\ node_call[1].arg # node_self.sub_assets[1]

\* C26: remove_asset(id) removes exactly the sub-assets whose id is id and
\* keeps all others in their order; an id that is not present leaves the
\* Node as it was.
C26_RemoveExact ==
    [][ (node_call' # None /\ node_call'[1].op = "remove_asset")
        => node_self' =
             [node_self EXCEPT !.sub_assets =
                 SelectSeq(@, LAMBDA a : uid(a) # node_call'[1].arg)] ]_vars

\* C27: GameWorld::spawn fails with NoSpawnpointFound and leaves the asset
\* as it was when the world has no spawn candidate; otherwise it succeeds,
\* sets the location of the asset to the first candidate and returns that
\* index, and the index resolves to a Node of the arena.
C27_Spawn ==
    [][ (spawn_result = None /\ spawn_result' # None)
        => IF Len(world.spawn_nodes) = 0
           THEN /\ spawn_result'[1] = Err("NoSpawnpointFound")
                /\ spawn_asset' = spawn_asset
           ELSE LET first == world.spawn_nodes[1]
                IN  /\ spawn_result'[1] = Ok(first)
                    /\ spawn_asset'.location = Some(first)
                    /\ spawn_asset'.player_name = spawn_asset.player_name
                    /\ spawn_asset'.active_session = spawn_asset.active_session
                    /\ Arena_get(world.nodes, first) # None
                    /\ Arena_get(world.nodes, first)[1].kind = "Node" ]_vars

\* C27 witness: in a world whose first node is no spawn node and that has two
\* spawn candidates, an asset has been spawned at the first candidate, the
\* second node.
C27_Witness ==
    /\ Len(world.spawn_nodes) = 2
    /\ world.spawn_nodes[1] = 2
    /\ spawn_result = Some(Ok(2))
    /\ spawn_asset.location = Some(2)

\* C28: when the Engine processes Register(c, username, channel, handle) in
\* a world with a spawn point, it stores under c a Player with the spawn index
\* as location and the handle of the command as reply handle, and passes the
\* welcome screen to that handle (when display_ansi could read one; it logs
\* an error otherwise); the entries of other connections stay.
C28_RegisterStores ==
    [][ (/\ CommandStep
         /\ Head(command_q).cmd = "Register"
         /\ world.spawn_nodes # <<>>)
        => LET r == Head(command_q)
           IN  /\ r.client_id \in DOMAIN players'
               /\ players'[r.client_id] =
                    [player_name |-> r.username,
                     active_session |-> [channel |-> r.channel_id, handle |-> r.handle],
                     location |-> Some(world.spawn_nodes[1])]
               /\ \/ handle_calls'[r.handle] =
                       Append(handle_calls[r.handle],
                              [channel |-> r.channel_id, data |-> WelcomeScreen])
                  \/ /\ error_log' = "Error sending welcome screen to client"
                     /\ handle_calls' = handle_calls
               /\ \A d \in DOMAIN players \ {r.client_id} :
                    d \in DOMAIN players' /\ players'[d] = players[d] ]_vars

\* C29: a look line whose text after the verb is neither the simple form nor
\* a complex form (`look port`, `look at 2 ports`) fails with
\* VerbEncodingError.
C29_MalformedLook ==
    (parse_result # None /\ parse_item \in {as_bytes(t) : t \in MalformedLookTexts})
    => parse_result[1] = Err("VerbEncodingError")

\* C30: read, enter, connect, access and open followed by any text give the
\* variant the verb gives alone: Read, Enter, Connect, Access, Open.
C30_TrailingIgnored ==
    parse_result # None
    => \A v \in DOMAIN VerbWords :
         LET w == VerbWords[v]
             text == from_utf8(parse_item).text
         IN  (/\ from_utf8(parse_item).ok
              /\ Len(text) > Len(w)
              /\ eq_ignore_ascii_case(SubSeq(text, 1, Len(w)), w)
              /\ ~InClass("verb", text[Len(w) + 1]))
             => parse_result[1] = Ok(Verb(v))

\* Every handler carries the connection id it is kept under, and the ids
\* handed out lie below the id the next connection gets.
C31_Ids ==
    \A c \in DOMAIN handlers :
        handlers[c].client_id = c /\ c < server_client_id

\* What accepting a connection does: the handler is new, with an id no
\* handler has, an empty line buffer and echo off, the other handlers stay,
\* and the next connection gets the next id.
C31_AcceptStep ==
    (budget' # budget /\ last_callback'[1].op = "new")
    => LET c == last_callback'[1].c
       IN  /\ c = server_client_id
           /\ c \notin DOMAIN handlers
           /\ DOMAIN handlers' = DOMAIN handlers \cup {c}
           /\ handlers'[c].client_id = c
           /\ handlers'[c].data_buffer = <<>>
           /\ handlers'[c].echo = FALSE
           /\ handlers'[c].client_username = None
           /\ \A d \in DOMAIN handlers : handlers'[d] = handlers[d]
           /\ server_client_id' = server_client_id + 1

\* C31: each accepted connection gets a fresh handler with an empty line
\* buffer, echo off and an id that increments per connection: no two
\* connections have the same id, and no handler starts with the buffer or the
\* echo state of another.
C31_FreshHandler == []C31_Ids /\ [][C31_AcceptStep]_vars

\* C31 witness: a connection has just been accepted, with an empty buffer,
\* while the handler of an earlier connection holds buffered bytes.
C31_Witness ==
    /\ last_callback # None
    /\ last_callback[1].op = "new"
    /\ last_callback[1].c = 1
    /\ handlers[1].data_buffer = <<>>
    /\ handlers[0].data_buffer # <<>>

\* C32: every index in the list of spawn candidates refers to a Node that
\* is in the arena.
C32_SpawnCandidatesLive ==
    \A i \in 1..Len(world.spawn_nodes) :
        /\ Arena_get(world.nodes, world.spawn_nodes[i]) # None
        /\ Arena_get(world.nodes, world.spawn_nodes[i])[1].kind = "Node"

\* C32 witness: a world with two spawn candidates whose second candidate was
\* added after a node that is no candidate.
C32_Witness ==
    /\ Len(world.nodes) = 3
    /\ world.spawn_nodes = <<1, 3>>
    /\ world_call # None
    /\ world_call[1].op = "add_spwan_node"

\* A step in which add_node or add_spwan_node is called on the world.
WorldAddStep == world_call' # world_call

NodePresent(nodes, node) ==
    {index \in 1..Len(nodes) : uid(nodes[index]) = uid(node)}

\* No two nodes of the arena have the same id.
C34_NoDuplicateIds ==
    \A i, j \in 1..Len(world.nodes) :
        uid(world.nodes[i]) = uid(world.nodes[j]) => i = j

\* What the doc comments of add_node and add_spwan_node say of a call: None
\* is returned when no node with that id was present; otherwise the node
\* with that id is replaced and the call hands back the old one.
C34_AddStep ==
    WorldAddStep
    => LET call == world_call'[1]
           present == NodePresent(world.nodes, call.node)
       IN  IF present = {}
           THEN call.returns = None
           ELSE /\ call.returns # None
                /\ call.returns[1] \in present
                /\ Len(world'.nodes) = Len(world.nodes)
                /\ world'.nodes[call.returns[1]] = call.node

\* C34: when a node is added and the world did not have it, None is
\* returned; when the world had it, the node is updated and the old node is
\* returned, so that the arena never holds two nodes with the same id.
C34_AddOrUpdate == []C34_NoDuplicateIds /\ [][C34_AddStep]_vars

\* The text both react_to functions return for a Look with a target.
C35_Placeholder == "Not implemented!\r\n"

\* react_to of a sub-asset, which is a Port or a Node.
C35_SubAssetReaction(asset, a) ==
    IF asset.kind = "Port" THEN Port_react_to(asset, a) ELSE Node_react_to(asset, a)

\* C35: Node::react_to for a Look with a target returns the react_to result
\* of a sub-asset that matches the target phrase, and a 'not found' text when
\* no sub-asset matches; a Node without sub-assets has none that matches.
C35_LookTarget ==
    [][ (/\ node_call' # node_call
         /\ node_call'[1].op = "react_to"
         /\ node_call'[1].arg.type = "Look"
         /\ node_call'[1].arg.target # None)
        => LET returned == node_call'[1].returns
               reactions == {C35_SubAssetReaction(node_self.sub_assets[n], node_call'[1].arg) :
                               n \in 1..Len(node_self.sub_assets)}
           IN  /\ returned \in reactions \/ returned # C35_Placeholder
               /\ node_self.sub_assets = <<>> => returned # C35_Placeholder ]_vars

\* Every Player of the table has a location, and it resolves to a Node of
\* the arena.
C36_PlayersLocated ==
    \A c \in DOMAIN players :
        /\ players[c].location # None
        /\ Arena_get(world.nodes, players[c].location[1]) # None
        /\ Arena_get(world.nodes, players[c].location[1])[1].kind = "Node"

\* Neither the None arm of player_info.location nor the None arm of
\* world.nodes.get(l) has run: their texts were sent on no Handle and the
\* error of the latter is not the last one logged.
C36_ArmsNotTaken ==
    /\ error_log # "Location index cannot be mapped to node"
    /\ \A h \in DOMAIN handle_calls :
         \A n \in 1..Len(handle_calls[h]) :
             handle_calls[h][n].data \notin
                 {"In limbo everything is possible. And nothing. Makes you wonder...\r\n",
                  "A glitch in the matrix occured.\r\n"}

\* C36: in every state of the world task each Player of the table has a
\* location that is set and resolves to a Node of the arena, so that the 'no
\* location' and the 'location does not resolve' arms of process_data are
\* never taken.
C36_LocatedPlayers == C36_PlayersLocated /\ C36_ArmsNotTaken

\* C36 witness: a registered player has been sent the reaction of its node to
\* an action.
C36_Witness ==
    \E c \in DOMAIN players :
        \E n \in 1..Len(handle_calls[players[c].active_session.handle]) :
            handle_calls[players[c].active_session.handle][n].data
                = Node_react_to(world.nodes[players[c].location[1]], SimpleLook) \o "\r\n"

\* What a step does to the data channel: nothing, or a sender puts one
\* message behind those it holds, or the world task takes the one at its head,
\* or the channel is dropped with the world task.
C38_Fifo ==
    \/ data_q' = data_q
    \/ Len(data_q') = Len(data_q) + 1 /\ SubSeq(data_q', 1, Len(data_q)) = data_q
    \/ data_q # <<>> /\ data_q' = Tail(data_q)
    \/ engine'.state = "panicked" /\ data_q' = <<>>

\* The reply to a line of a player: the reaction of the player's node to the
\* action the line parses to, or the text for a line that is no action.
C38_ReplyTo(player, bytes) ==
    LET a == Action_try_from(bytes, FALSE)
    IN  IF IsOk(a)
        THEN Node_react_to(world.nodes[player.location[1]], a.val) \o "\r\n"
        ELSE "Error 23: Command not found.\r\n"

\* The message the world task processes is the one at the head of the data
\* channel, the oldest it holds, and the reply to it is the next call on the
\* handle of its connection, behind the replies sent before (no call is made
\* when the world task panics before it replies).
C38_ReplyInOrder ==
    (DataStep /\ Head(data_q).client_id \in DOMAIN players)
    => LET m == Head(data_q)
           player == players[m.client_id]
       IN  /\ player.active_session.handle = m.client_id
           /\ \/ OneMoreCall(m.client_id, player.active_session.channel,
                             C38_ReplyTo(player, m.data))
              \/ engine'.state = "panicked" /\ handle_calls' = handle_calls

\* The calls on a handle are only ever added to, one at a time, at the end.
C38_CallsAppended ==
    \A h \in DOMAIN handle_calls :
        \/ handle_calls'[h] = handle_calls[h]
        \/ /\ Len(handle_calls'[h]) = Len(handle_calls[h]) + 1
           /\ SubSeq(handle_calls'[h], 1, Len(handle_calls[h])) = handle_calls[h]

\* C38: the data messages of a connection are processed in the order in
\* which they were put on the data channel, and the replies to them are sent
\* on the handle of that connection in that order, however the messages of
\* the connections are interleaved.
C38_PerConnectionOrder ==
    [][C38_Fifo]_vars /\ [][C38_ReplyInOrder]_vars /\ [][C38_CallsAppended]_vars

\* C38 witness: connection 0 typed look and then read, connection 1 typed a
\* line as well; connection 0 has been sent the reply to look and then the
\* reply to read, and connection 1 its reply.
C38_Witness ==
    /\ Len(handle_calls[0]) = 3
    /\ handle_calls[0][2].data = C13_LookOf(0)
    /\ handle_calls[0][3].data = "Read what?\r\n"
    /\ Len(handle_calls[1]) = 2

\* What processing a DataMessage leaves alone: the world and the player
\* table.
C37_DataFrame ==
    DataStep => world' = world /\ players' = players

\* The location of a player that stays in the table stays what it was.
C37_LocationFixed ==
    \A c \in DOMAIN players \cap DOMAIN players' :
        players'[c].location = players[c].location

\* C37: processing a DataMessage leaves the player table and the world (the
\* arena of nodes, the spawn list, the sub-assets of every node, the open
\* flag of every Port) as they were, whatever the line, enter and open
\* included; the location of a player never changes after its registration.
C37_DataLeavesState == [][C37_DataFrame]_vars /\ [][C37_LocationFixed]_vars

\* C37, for as long as the world task lives: the frame holds in every step
\* in which process_data does not panic.
C37_WhileRunning ==
    [][ (DataStep /\ engine'.state # "panicked")
        => world' = world /\ players' = players ]_vars

\* The table has entries for connection ids only, one Player each.
C39_OnePerConnection ==
    /\ DOMAIN players \subseteq ClientIds
    /\ \A c \in DOMAIN players :
         DOMAIN players[c] = {"player_name", "active_session", "location"}

\* What a Register for a connection that has a Player leaves behind: the
\* Player of that connection is the one made from the command, with its
\* channel and handle, and the other entries are as before.
C39_Replaced ==
    LET r == Head(command_q)
    IN  /\ DOMAIN players' = DOMAIN players
        /\ players'[r.client_id].player_name = r.username
        /\ players'[r.client_id].active_session
             = [channel |-> r.channel_id, handle |-> r.handle]
        /\ \A d \in DOMAIN players \ {r.client_id} : players'[d] = players[d]

\* A step that processes a Register for a connection that has a Player.
C39_RegisterAgain ==
    /\ CommandStep
    /\ Head(command_q).cmd = "Register"
    /\ Head(command_q).client_id \in DOMAIN players

\* C39: the player table holds at most one Player per connection id: a
\* Register whose connection id is in the table already replaces the stored
\* Player and its reply handle and leaves the entries of the other
\* connections as they were.
C39_RegisterReplaces ==
    []C39_OnePerConnection /\ [][C39_RegisterAgain => C39_Replaced]_vars

\* C39, for as long as the world task lives: the replacement holds in every
\* step in which process_command does not panic.
C39_WhileRunning ==
    [][ (C39_RegisterAgain /\ engine'.state # "panicked") => C39_Replaced ]_vars

\* A line `enter` waits on the data channel.
C40_EnterWaits == \E n \in 1..Len(data_q) : data_q[n].data = <<101,110,116,101,114>>

\* C40: under fair scheduling of the world task neither channel starves the
\* other: the commands that wait come to be processed although lines that
\* are discarded keep the data channel filled, and the lines `enter` that
\* wait come to be processed whatever the command channel holds; processed,
\* that is taken from the channel by a world task that lives.
C40_NoStarvation ==
    /\ (command_q # <<>>) ~> (command_q = <<>> /\ engine.state # "panicked")
    /\ C40_EnterWaits ~> (~C40_EnterWaits /\ engine.state # "panicked")

\* C40, for as long as the world task lives: a message that waits is taken
\* from its channel unless a panic ends the world task first.
C40_WhileRunning ==
    /\ (command_q # <<>>) ~> (command_q = <<>>)
    /\ C40_EnterWaits ~> ~C40_EnterWaits

====
